---------------------------- MODULE Spec2Model ----------------------------
(***************************************************************************)
(* Billing-event reconciliation of aleppi-backend: the Stripe webhook, the *)
(* confirm (fallback) endpoint and the four tables they write.            *)
(*                                                                         *)
(* Every request is handled by its own worker with its own database       *)
(* session (database.get_session).  A step of a worker is one database    *)
(* statement (a SELECT, or the flush + COMMIT of one INSERT / UPDATE)      *)
(* together with the local computation and the processor calls that       *)
(* precede it; steps of different workers interleave freely.  The tables   *)
(* live in PostgreSQL: a COMMIT that breaks a unique constraint raises    *)
(* IntegrityError and writes nothing.                                      *)
(***************************************************************************)
EXTENDS Integers, Sequences, FiniteSets, TLC

(***************************************************************************)
(* Bounds of the model.                                                    *)
(***************************************************************************)
\* number of workers that handle requests at the same time
NumProcs == 2
\* number of requests (webhook deliveries + confirm calls) over a behaviour
MaxRequests == 3

Procs == 1 .. NumProcs

(***************************************************************************)
(* Values.  Python's None is "None" for a string-valued field and the     *)
(* empty set for an Optional[int] / Optional[datetime] ({v} is the value  *)
(* v).  A dict key that is absent is "None" as well: the code reads every  *)
(* key with .get().                                                        *)
(***************************************************************************)
None == "None"
NoInt == {}

\* users.id values of the users table (the foreign key target)
Users == {1, 2}
EventIds == {"evt_1", "evt_2", "evt_3"}
\* event ids are names: a delivery carries an id that was delivered before,
\* or the first id that was not
EventIdOrder == << "evt_1", "evt_2", "evt_3" >>
Deliverable(seen) ==
    LET fresh == {i \in 1 .. Len(EventIdOrder) : EventIdOrder[i] \notin seen}
    IN  seen \cup {EventIdOrder[i] : i \in {j \in fresh : \A k \in fresh : j <= k}}
CustomerIds == {"cus_A", "cus_B"}
SubscriptionIds == {"sub_1"}
InvoiceIds == {"in_1"}

EventTypes ==
    { "checkout.session.completed", "invoice.payment_succeeded",
      "invoice.payment_failed", "customer.subscription.updated",
      "customer.subscription.deleted", "customer.created" }

\* int(v) of Python for the strings the payloads of the model carry
IntOf == [s \in {"0", "1", "2"} |-> CASE s = "0" -> 0 [] s = "1" -> 1 [] s = "2" -> 2]

\* _safe_int (the second definition, which is the one bound at call time):
\* int(v), None when int() raises (None, "", "abc")
SafeInt(v) == IF v \in DOMAIN IntOf THEN {IntOf[v]} ELSE NoInt

\* fault model: an Optional[int] tested with  is not None
TruthyIntNotNone(o) == o # NoInt

\* truth value of an Optional[int]: None and 0 are falsy
TruthyInt(o) == o # NoInt /\ o # {0}

\* Python's  a or b  on Optional[int]
OrInt(a, b) == IF TruthyInt(a) THEN a ELSE b

\* truth value of an Optional[str]: None and "" are falsy
TruthyStr(s) == s # None /\ s # ""

\* Python's  a or b  on Optional[str]
OrStr(a, b) == IF TruthyStr(a) THEN a ELSE b

\* _to_dt_from_unix (the second definition): None for None and for 0,
\* else the UTC datetime of the timestamp
ToDtFromUnix(ts) == IF ~TruthyInt(ts) THEN NoInt ELSE {[utc |-> t] : t \in ts}

\* fault model: only the direct field of the invoice consulted
ExtractSubscriptionIdDirectOnly(obj) ==
    IF TruthyStr(obj.subscription) THEN obj.subscription ELSE None

\* _extract_subscription_id_from_invoice: the direct field, then
\* parent.subscription_details.subscription, then
\* lines.data[0].parent.subscription_item_details.subscription
ExtractSubscriptionIdFromInvoice(obj) ==
    IF TruthyStr(obj.subscription) THEN obj.subscription
    ELSE IF TruthyStr(obj.parent_sub) THEN obj.parent_sub
    ELSE IF TruthyStr(obj.line_sub) THEN obj.line_sub
    ELSE None

(***************************************************************************)
(* Payloads.  data.object of an event, by event type, the subscription    *)
(* objects the processor holds (stripe.Subscription.retrieve, and the     *)
(* object embedded in customer.subscription.* events) and the checkout    *)
(* sessions (stripe.checkout.Session.retrieve).  Nested dicts are         *)
(* flattened to the leaves the code reads.                                 *)
(***************************************************************************)
NoObj == [kind |-> "none"]

\* checkout.session.completed: metadata.user_id, client_reference_id,
\* metadata.transaction_id, customer, subscription, customer_details.email,
\* customer_email
CheckoutObjects ==
    { [meta_user |-> "1", client_ref |-> None, meta_tx |-> "tx_1",
       customer |-> "cus_A", subscription |-> "sub_1",
       details_email |-> "a@x.io", customer_email |-> None],
      [meta_user |-> "2", client_ref |-> "1", meta_tx |-> "",
       customer |-> "cus_B", subscription |-> None,
       details_email |-> None, customer_email |-> "b@x.io"],
      [meta_user |-> "1", client_ref |-> None, meta_tx |-> None,
       customer |-> "cus_B", subscription |-> "sub_1",
       details_email |-> None, customer_email |-> None],
      [meta_user |-> None, client_ref |-> "2", meta_tx |-> " tx_2 ",
       customer |-> "cus_A", subscription |-> "sub_1",
       details_email |-> None, customer_email |-> None],
      [meta_user |-> "0", client_ref |-> "abc", meta_tx |-> None,
       customer |-> "cus_A", subscription |-> "sub_1",
       details_email |-> None, customer_email |-> None],
      [meta_user |-> "2", client_ref |-> None, meta_tx |-> None,
       customer |-> None, subscription |-> "sub_1",
       details_email |-> None, customer_email |-> None] }

\* a subscription object: items_price is items.data[0].price.id, "NoItems"
\* when items.data is empty
SubObjects ==
    { [id |-> "sub_1", customer |-> "cus_A", items_price |-> "price_pro",
       status |-> "active", cancel_at_period_end |-> FALSE,
       current_period_start |-> {1}, current_period_end |-> {2},
       canceled_at |-> NoInt],
      [id |-> "sub_1", customer |-> "cus_A", items_price |-> "price_plus",
       status |-> "past_due", cancel_at_period_end |-> TRUE,
       current_period_start |-> {2}, current_period_end |-> {3},
       canceled_at |-> {3}],
      [id |-> "sub_1", customer |-> "cus_B", items_price |-> "NoItems",
       status |-> "canceled", cancel_at_period_end |-> FALSE,
       current_period_start |-> NoInt, current_period_end |-> NoInt,
       canceled_at |-> NoInt] }

\* an invoice object: subscription, parent.subscription_details.subscription
\* and lines.data[0].parent.subscription_item_details.subscription;
\* paid_at is status_transitions.paid_at
InvoiceObjects ==
    { [id |-> "in_1", customer |-> "cus_A", subscription |-> "sub_1",
       parent_sub |-> None, line_sub |-> None, amount_paid |-> {100},
       amount_due |-> {100}, currency |-> "usd", status |-> "paid",
       paid_at |-> {1}],
      [id |-> "in_1", customer |-> "cus_B", subscription |-> None,
       parent_sub |-> None, line_sub |-> "sub_1", amount_paid |-> {0},
       amount_due |-> {250}, currency |-> "mxn", status |-> "open",
       paid_at |-> NoInt],
      [id |-> "in_1", customer |-> None, subscription |-> None,
       parent_sub |-> None, line_sub |-> None, amount_paid |-> NoInt,
       amount_due |-> NoInt, currency |-> None, status |-> None,
       paid_at |-> NoInt] }

ObjectsOf(event_type) ==
    CASE event_type = "checkout.session.completed" -> CheckoutObjects
      [] event_type \in {"invoice.payment_succeeded", "invoice.payment_failed"}
           -> InvoiceObjects
      [] event_type \in {"customer.subscription.updated",
                         "customer.subscription.deleted"} -> SubObjects
      [] OTHER -> {NoObj}

\* a checkout session: status, payment_status, subscription, customer,
\* metadata.user_id, client_reference_id, metadata.transaction_id
Sessions ==
    { [status |-> "complete", payment_status |-> "paid",
       subscription |-> "sub_1", customer |-> "cus_A", meta_user |-> "1",
       client_ref |-> None, meta_tx |-> "tx_1"],
      [status |-> "complete", payment_status |-> "no_payment_required",
       subscription |-> "sub_1", customer |-> "cus_B", meta_user |-> None,
       client_ref |-> "2", meta_tx |-> None],
      [status |-> "complete", payment_status |-> "paid",
       subscription |-> "sub_1", customer |-> "cus_A", meta_user |-> "abc",
       client_ref |-> None, meta_tx |-> None],
      [status |-> "complete", payment_status |-> "paid",
       subscription |-> None, customer |-> "cus_A", meta_user |-> "1",
       client_ref |-> None, meta_tx |-> None],
      [status |-> "complete", payment_status |-> "unpaid",
       subscription |-> "sub_1", customer |-> "cus_A", meta_user |-> "1",
       client_ref |-> None, meta_tx |-> "tx_1"],
      [status |-> "open", payment_status |-> "paid",
       subscription |-> None, customer |-> None, meta_user |-> "1",
       client_ref |-> None, meta_tx |-> None] }

\* ConfirmRequest.transaction_id
RequestTransactionIds == {None, "tx_1", "tx_2"}

\* str.strip() on the strings of the model
Strip(s) ==
    CASE s = " tx_2 " -> "tx_2"
      [] s = " price_x " -> "price_x"
      [] s = " " -> ""
      [] OTHER -> s

\* str(n) of Python for the integers of the model
StrOf(n) == CHOOSE s \in DOMAIN IntOf : IntOf[s] = n

\* the environment of create_checkout_session: STRIPE_PRICE_ID_PRO, and
\* STRIPE_PRICE_IDS_ALLOWED as the pieces between its commas
CheckoutEnvs ==
    { [pro |-> "", extra |-> << >>],
      [pro |-> "price_pro", extra |-> << >>],
      [pro |-> "", extra |-> << " price_x ", " " >>],
      [pro |-> "price_pro", extra |-> << "price_x" >>] }

\* CreateCheckoutSessionRequest: price_id, user_id, transaction_id
CheckoutPayloads ==
    { [price_id |-> None, user_id |-> {1}, transaction_id |-> " tx_2 "],
      [price_id |-> " price_x ", user_id |-> NoInt, transaction_id |-> None],
      [price_id |-> "price_y", user_id |-> {0}, transaction_id |-> "tx_1"] }

(***************************************************************************)
(* State.                                                                  *)
(*   events, customers, subscriptions, invoices: the tables stripe_events,*)
(*     stripe_customers, stripe_subscriptions, stripe_invoices, each a    *)
(*     sequence of rows; the index of a row stands for its primary key    *)
(*     (the uuid4 id), rows are never deleted.                             *)
(*   proc: the request each worker is handling: where it is (pc), the     *)
(*     request, the local variables of the handler and, once the handler *)
(*     has returned or raised, its response.                               *)
(*   started: the number of requests received so far.                      *)
(*   seen_events: the event ids delivered so far.                         *)
(*   gate_new, crashed_events, last_upsert: history of the run.  gate_new *)
(*     counts, per event id, the deliveries _insert_event_idempotent      *)
(*     answered True; crashed_events holds the event ids whose delivery    *)
(*     died after its ledger insert, and whether it had written to an    *)
(*     entity table; last_upsert holds, per subscription id, the latest    *)
(*     committed _upsert_subscription: who called it, the payload the      *)
(*     caller was handling, the row it assigned.                           *)
(***************************************************************************)
VARIABLES events, customers, subscriptions, invoices, proc, started,
          seen_events, gate_new, crashed_events, last_upsert

vars == << events, customers, subscriptions, invoices, proc, started,
           seen_events, gate_new, crashed_events, last_upsert >>

\* responses
NoResp == [code |-> 0]
Ack == [code |-> 200, status |-> "ok"]
HttpError(code, detail) == [code |-> code, detail |-> detail]
\* fault model: every answer of confirm reporting ok
ConfirmResponseOk(ok, status, subscription_id, customer_id, synced) ==
    [code |-> 200, ok |-> TRUE, status |-> status,
     subscription_id |-> subscription_id, customer_id |-> customer_id,
     synced |-> synced]

ConfirmResponse(ok, status, subscription_id, customer_id, synced) ==
    [code |-> 200, ok |-> ok, status |-> status,
     subscription_id |-> subscription_id, customer_id |-> customer_id,
     synced |-> synced]

\* a worker with no request
Idle ==
    [pc |-> "idle", kind |-> "none", event_id |-> None, event_type |-> None,
     obj |-> NoObj, user_id |-> NoInt, idx |-> 0, snap |-> NoObj,
     row |-> NoObj, sub |-> NoObj, args |-> NoObj, gate |-> "none",
     wrote |-> FALSE,
     resp |-> NoResp]

\* the handler returns (or raises) resp: the request as answered
Done(r, resp) ==
    [Idle EXCEPT !.pc = "done", !.kind = r.kind, !.event_id = r.event_id,
                 !.event_type = r.event_type, !.obj = r.obj, !.sub = r.sub,
                 !.gate = r.gate, !.wrote = r.wrote, !.resp = resp]

\* worker p moves on to r: to its next statement, or (pc = "done") to
\* sending its response
Land(p, r) == proc' = [proc EXCEPT ![p] = r]

\* a response is sent as soon as the handler has returned it: no worker
\* takes a step while a response is waiting to be sent (sending touches
\* nothing the workers share)
Settled == \A q \in Procs : proc[q].pc # "done"

\* worker p is at the statement pc
At(p, pc) == Settled /\ proc[p].pc = pc

\* workers are interchangeable: a request goes to the first free one
Free(p) ==
    /\ At(p, "idle")
    /\ \A q \in Procs : q < p => proc[q].pc # "idle"

TheInt(o) == CHOOSE n \in o : TRUE

(***************************************************************************)
(* The storage layer.                                                      *)
(***************************************************************************)
\* .first() of a SELECT whose rows have the primary keys S: the first of
\* them, 0 for None
First(S) == IF S = {} THEN 0 ELSE CHOOSE i \in S : \A j \in S : i <= j

\* select(StripeCustomer).where(StripeCustomer.user_id == user_id).first()
CustomerByUser(tbl, user_id) ==
    First({i \in 1 .. Len(tbl) : tbl[i].user_id = user_id})

\* select(StripeCustomer).where(StripeCustomer.stripe_customer_id ==
\* stripe_customer_id).first()
CustomerByCus(tbl, stripe_customer_id) ==
    First({i \in 1 .. Len(tbl) : tbl[i].stripe_customer_id = stripe_customer_id})

\* select(StripeSubscription).where(StripeSubscription.stripe_subscription_id
\* == stripe_subscription_id).first()
SubscriptionById(tbl, stripe_subscription_id) ==
    First({i \in 1 .. Len(tbl) :
              tbl[i].stripe_subscription_id = stripe_subscription_id})

\* select(StripeInvoice).where(StripeInvoice.stripe_invoice_id ==
\* stripe_invoice_id).first()
InvoiceById(tbl, stripe_invoice_id) ==
    First({i \in 1 .. Len(tbl) : tbl[i].stripe_invoice_id = stripe_invoice_id})

RowAt(tbl, i) == IF i = 0 THEN NoObj ELSE tbl[i]

\* the flush of a loaded row: the UPDATE sets the columns whose assigned
\* value differs from the loaded one, the other columns keep what the table
\* holds now
Flush(current, loaded, assigned) ==
    [f \in DOMAIN current |->
        IF assigned[f] # loaded[f] THEN assigned[f] ELSE current[f]]

\* fault model: stripe_events without the unique constraint
EventUniqueViolationOff(tbl, event_id) == FALSE

\* stripe_events.stripe_event_id is unique
EventUniqueViolation(tbl, event_id) ==
    \E i \in 1 .. Len(tbl) : tbl[i].stripe_event_id = event_id

\* fault model: stripe_customers without its unique constraints
CustomerUniqueViolationOff(tbl, idx, row) == FALSE

\* stripe_customers.user_id is unique, stripe_customers.stripe_customer_id
\* is unique; idx is the row being updated, 0 for an insert
CustomerUniqueViolation(tbl, idx, row) ==
    \E i \in (1 .. Len(tbl)) \ {idx} :
        \/ tbl[i].user_id = row.user_id
        \/ tbl[i].stripe_customer_id = row.stripe_customer_id

\* fault model: stripe_subscriptions without the unique constraint
SubscriptionUniqueViolationOff(tbl, idx, row) == FALSE

\* stripe_subscriptions.stripe_subscription_id is unique
SubscriptionUniqueViolation(tbl, idx, row) ==
    \E i \in (1 .. Len(tbl)) \ {idx} :
        tbl[i].stripe_subscription_id = row.stripe_subscription_id

\* stripe_invoices.stripe_invoice_id is unique, stripe_customer_id is
\* NOT NULL
InvoiceConstraintViolation(tbl, row) ==
    \/ row.stripe_customer_id = None
    \/ \E i \in 1 .. Len(tbl) : tbl[i].stripe_invoice_id = row.stripe_invoice_id

\* fault model: a cancellation taking the row out of the table
CommittedRemovingCanceled(tbl, idx, loaded, assigned) ==
    IF idx = 0 THEN Append(tbl, assigned)
    ELSE IF "status" \in DOMAIN assigned /\ assigned.status = "canceled"
    THEN SubSeq(tbl, 1, idx - 1) \o SubSeq(tbl, idx + 1, Len(tbl))
    ELSE [tbl EXCEPT ![idx] = Flush(tbl[idx], loaded, assigned)]

\* the table after the COMMIT of a new row (idx = 0) or of a loaded row
Committed(tbl, idx, loaded, assigned) ==
    IF idx = 0 THEN Append(tbl, assigned)
    ELSE [tbl EXCEPT ![idx] = Flush(tbl[idx], loaded, assigned)]

Init ==
    /\ events = << >>
    /\ customers = << >>
    /\ subscriptions = << >>
    /\ invoices = << >>
    /\ proc = [p \in Procs |-> Idle]
    /\ started = 0
    /\ seen_events = {}
    /\ gate_new = [e \in EventIds |-> 0]
    /\ crashed_events = {}
    /\ last_upsert = [s \in SubscriptionIds |-> NoObj]

(***************************************************************************)
(* The webhook of stripe_local/router.py.                                  *)
(***************************************************************************)
\* the stripe-signature header of a request, as construct_event judges it
\* ("malformed": the payload makes it raise ValueError)
Signatures == {"missing", "invalid", "malformed", "valid"}

\* fault model: a webhook that takes every signed request for an event
VerifyWebhookUnchecked(secret_key, webhook_secret, signature) ==
    IF ~secret_key THEN "http_500"
    ELSE IF ~webhook_secret THEN "ack"
    ELSE IF signature = "missing" THEN "ack"
    ELSE "event"

\* stripe_webhook up to construct_event: "http_500" is the HTTPException
\* of _init_stripe, "ack" an acknowledged and dropped request, "event" a
\* verified event
VerifyWebhook(secret_key, webhook_secret, signature) ==
    IF ~secret_key THEN "http_500"
    ELSE IF ~webhook_secret THEN "ack"
    ELSE IF signature = "missing" THEN "ack"
    ELSE IF signature \in {"invalid", "malformed"} THEN "ack"
    ELSE "event"

\* the row _insert_event_idempotent adds
EventRow(event_id, event_type) ==
    [stripe_event_id |-> event_id, type |-> event_type]

\* fault model: client_reference_id consulted before metadata.user_id
ResolveUserIdSecondaryFirst(obj) ==
    OrInt(SafeInt(obj.client_ref), SafeInt(obj.meta_user))

\* fault model: a session that names no user attributed to the first user
ResolveUserIdDefaulting(obj) ==
    OrInt(OrInt(SafeInt(obj.meta_user), SafeInt(obj.client_ref)), {1})

\* user_id of checkout.session.completed and of confirm:
\* _safe_int(metadata.user_id) or _safe_int(client_reference_id)
ResolveUserId(obj) == OrInt(SafeInt(obj.meta_user), SafeInt(obj.client_ref))

\* (metadata.get("transaction_id") or "").strip()
MetaTransactionId(obj) == Strip(OrStr(obj.meta_tx, ""))

\* (customer_details or {}).get("email") or customer_email
CheckoutEmail(obj) == OrStr(obj.details_email, obj.customer_email)

\* price_id of the webhook: items[0].price.id if items else ""
WebhookPriceId(sub) ==
    IF sub.items_price = "NoItems" THEN "" ELSE sub.items_price

\* price_id of confirm: None unless items[0].price is there
ConfirmPriceId(sub) ==
    IF sub.items_price = "NoItems" THEN None ELSE sub.items_price

\* the arguments of a call of _upsert_subscription, as a row
SubscriptionArgs(user_id, sub, customer_id, price_id, status, transaction_id) ==
    [user_id |-> user_id, stripe_subscription_id |-> sub.id,
     stripe_customer_id |-> customer_id, price_id |-> price_id,
     status |-> status, cancel_at_period_end |-> sub.cancel_at_period_end,
     current_period_start |-> ToDtFromUnix(sub.current_period_start),
     current_period_end |-> ToDtFromUnix(sub.current_period_end),
     canceled_at |-> ToDtFromUnix(sub.canceled_at),
     transaction_id |-> transaction_id]

\* fault model: every lifecycle event recorded as a cancellation
LifecycleStatusCanceled(event_type, obj) == "canceled"

\* status_ of customer.subscription.updated / deleted
LifecycleStatus(event_type, obj) ==
    IF event_type = "customer.subscription.deleted" THEN "canceled"
    ELSE obj.status

\* fault model: a stored cancellation is final
UpsertSubscriptionRowKeepCanceled(existing, args) ==
    IF existing = NoObj
    THEN [args EXCEPT !.transaction_id = OrStr(args.transaction_id, None)]
    ELSE [args EXCEPT !.transaction_id =
                         IF TruthyStr(args.transaction_id)
                         THEN args.transaction_id
                         ELSE existing.transaction_id,
                      !.status = IF existing.status = "canceled"
                                 THEN "canceled" ELSE @]

\* fault model: the transaction id overwritten like every other field
UpsertSubscriptionRowOverwriteTx(existing, args) == args

\* _upsert_subscription after its SELECT: the attributes assigned to the
\* row found (existing), or the new row when there is none (NoObj)
UpsertSubscriptionRow(existing, args) ==
    IF existing = NoObj
    THEN [args EXCEPT !.transaction_id = OrStr(args.transaction_id, None)]
    ELSE [args EXCEPT !.transaction_id =
                         IF TruthyStr(args.transaction_id)
                         THEN args.transaction_id
                         ELSE existing.transaction_id]

\* _upsert_customer after the SELECT that found a row by user_id
UpdateCustomerByUser(existing, stripe_customer_id, email) ==
    [existing EXCEPT !.stripe_customer_id = stripe_customer_id,
                     !.email = IF TruthyStr(email) THEN email ELSE @]

\* _upsert_customer after the SELECT that found a row by stripe_customer_id
UpdateCustomerByCus(by_cus, user_id, email) ==
    [by_cus EXCEPT !.user_id = user_id,
                   !.email = IF TruthyStr(email) THEN email ELSE @]

\* _upsert_customer when neither SELECT found a row
NewCustomerRow(user_id, stripe_customer_id, email) ==
    [user_id |-> user_id, stripe_customer_id |-> stripe_customer_id,
     email |-> email]

\* the row _insert_invoice adds; paid_at is None for invoice.payment_failed
InvoiceRow(event_type, obj) ==
    [stripe_invoice_id |-> obj.id, stripe_customer_id |-> obj.customer,
     stripe_subscription_id |-> ExtractSubscriptionIdFromInvoice(obj),
     amount_paid |-> obj.amount_paid, amount_due |-> obj.amount_due,
     currency |-> obj.currency, status |-> obj.status,
     paid_at |-> IF event_type = "invoice.payment_succeeded"
                 THEN ToDtFromUnix(obj.paid_at) ELSE NoInt,
     raw_json |-> obj]

\* fault model: _insert_invoice as an upsert
OverwriteExistingInvoice(tbl, idx, row) == [tbl EXCEPT ![idx] = row]

\* _insert_invoice when its SELECT found the invoice id: the table is left
\* as it is and the existing row is returned
KeepExistingInvoice(tbl, idx, row) == tbl

\* fault model: every event handled as an invoice event
InterpretAsInvoice(r0, obj) == [r0 EXCEPT !.obj = obj, !.pc = "inv_select"]

\* stripe_webhook from  obj = event["data"]["object"]  to its first
\* database statement: the worker's next position, or its answer
Interpret(r0, obj) ==
    LET r == [r0 EXCEPT !.obj = obj]
    IN  CASE r.event_type = "checkout.session.completed" ->
               IF ~TruthyInt(ResolveUserId(obj)) THEN Done(r, Ack)
               ELSE IF TruthyStr(obj.customer)
                    THEN [r EXCEPT !.pc = "cust_by_user",
                                   !.user_id = ResolveUserId(obj)]
                    ELSE Done(r, Ack)
          [] r.event_type = "invoice.payment_succeeded" ->
               IF TruthyStr(obj.customer)
               THEN [r EXCEPT !.pc = "inv_cust"]
               ELSE [r EXCEPT !.pc = "inv_select"]
          [] r.event_type = "invoice.payment_failed" ->
               [r EXCEPT !.pc = "inv_select"]
          [] r.event_type \in {"customer.subscription.updated",
                               "customer.subscription.deleted"} ->
               IF TruthyStr(obj.customer)
               THEN [r EXCEPT !.pc = "sub_cust"]
               ELSE Done(r, Ack)
          [] OTHER -> Done(r, Ack)

\* fault model: _insert_event_idempotent answering True whatever the COMMIT
\* did
InsertEventAlwaysNew(tbl, event_id) == "new"

\* _insert_event_idempotent: "new" (True), "duplicate" (False on
\* IntegrityError); the INSERT and its unique check are one statement
InsertEventIdempotent(tbl, event_id) ==
    IF EventUniqueViolation(tbl, event_id) THEN "duplicate" ELSE "new"

\* POST /stripe/webhook: verification, the ledger insert and, for a new
\* event, the interpretation up to the first statement on an entity table.
\* storage_fault is a failure of the ledger COMMIT other than
\* IntegrityError.  The type and the object of an event are drawn where the
\* handler first depends on them.
WebhookDeliver(p) ==
    /\ Free(p)
    /\ started < MaxRequests
    /\ started' = started + 1
    /\ \E secret_key \in BOOLEAN, webhook_secret \in BOOLEAN,
          signature \in Signatures :
         LET verdict == VerifyWebhook(secret_key, webhook_secret, signature)
             unverified == [Idle EXCEPT !.kind = "webhook"]
         IN  IF verdict = "http_500"
             THEN /\ Land(p, Done(unverified,
                               HttpError(500, "Falta STRIPE_SECRET_KEY.")))
                  /\ UNCHANGED << events, gate_new, seen_events >>
             ELSE IF verdict = "ack"
             THEN /\ Land(p, Done([unverified EXCEPT !.gate = "unverified"],
                                   Ack))
                  /\ UNCHANGED << events, gate_new, seen_events >>
             ELSE \E event_id \in Deliverable(seen_events),
                     storage_fault \in BOOLEAN :
                    LET r == [Idle EXCEPT !.kind = "webhook",
                                          !.event_id = event_id]
                    IN  /\ seen_events' = seen_events \cup {event_id}
                        /\ IF storage_fault
                           THEN /\ Land(p, Done([r EXCEPT !.gate = "fault"], Ack))
                                /\ UNCHANGED << events, gate_new >>
                           ELSE IF InsertEventIdempotent(events, event_id)
                                     = "duplicate"
                           THEN /\ Land(p, Done([r EXCEPT !.gate = "duplicate"],
                                                Ack))
                                /\ UNCHANGED << events, gate_new >>
                           ELSE \E event_type \in EventTypes :
                                  /\ events' = Append(events,
                                                 EventRow(event_id, event_type))
                                  /\ gate_new' =
                                       [gate_new EXCEPT ![event_id] = @ + 1]
                                  /\ \E obj \in ObjectsOf(event_type) :
                                       Land(p, Interpret(
                                          [r EXCEPT !.gate = "new",
                                                    !.event_type = event_type],
                                          obj))
    /\ UNCHANGED << customers, subscriptions, invoices, crashed_events,
                    last_upsert >>

\* fault model: a failed statement of the webhook tried again
WebhookRetry(r) == r

\* fault model: an exception inside the webhook reaching the processor
WebhookSurface(r) == Done(r, HttpError(500, "Internal Server Error"))

\* an exception inside the try block of stripe_webhook: logged, answered ok
WebhookSwallow(r) == Done(r, Ack)

(***************************************************************************)
(* _upsert_customer, called for checkout.session.completed.               *)
(***************************************************************************)
\* SELECT stripe_customers WHERE user_id
CustomerSelectByUser(p) ==
    LET r == proc[p]
        i == CustomerByUser(customers, TheInt(r.user_id))
    IN  /\ At(p, "cust_by_user")
        /\ Land(p,
             IF i # 0
             THEN [r EXCEPT !.pc = "cust_commit", !.idx = i,
                            !.snap = customers[i],
                            !.row = UpdateCustomerByUser(customers[i],
                                       r.obj.customer, CheckoutEmail(r.obj))]
             ELSE [r EXCEPT !.pc = "cust_by_cus"])
        /\ UNCHANGED << events, customers, subscriptions, invoices, started,
                        seen_events, gate_new, crashed_events, last_upsert >>

\* SELECT stripe_customers WHERE stripe_customer_id
CustomerSelectByCus(p) ==
    LET r == proc[p]
        i == CustomerByCus(customers, r.obj.customer)
    IN  /\ At(p, "cust_by_cus")
        /\ Land(p,
             IF i # 0
             THEN [r EXCEPT !.pc = "cust_commit", !.idx = i,
                            !.snap = customers[i],
                            !.row = UpdateCustomerByCus(customers[i],
                                       TheInt(r.user_id), CheckoutEmail(r.obj))]
             ELSE [r EXCEPT !.pc = "cust_commit", !.idx = 0,
                            !.row = NewCustomerRow(TheInt(r.user_id),
                                       r.obj.customer, CheckoutEmail(r.obj))])
        /\ UNCHANGED << events, customers, subscriptions, invoices, started,
                        seen_events, gate_new, crashed_events, last_upsert >>

\* db.add + db.commit of _upsert_customer; IntegrityError reaches the
\* except of stripe_webhook, which skips the subscription part
CustomerCommit(p) ==
    LET r == proc[p]
        new == IF r.idx = 0 THEN r.row
               ELSE Flush(customers[r.idx], r.snap, r.row)
    IN  /\ At(p, "cust_commit")
        /\ IF CustomerUniqueViolation(customers, r.idx, new)
           THEN /\ Land(p, WebhookSwallow(r))
                /\ UNCHANGED customers
           ELSE /\ customers' = Committed(customers, r.idx, r.snap, r.row)
                /\ Land(p,
                     IF TruthyStr(r.obj.subscription)
                     THEN [r EXCEPT !.pc = "sub_select", !.wrote = TRUE,
                                    !.idx = 0, !.snap = NoObj, !.row = NoObj]
                     ELSE Done([r EXCEPT !.wrote = TRUE], Ack))
        /\ UNCHANGED << events, subscriptions, invoices, started, gate_new,
                        seen_events, crashed_events, last_upsert >>

(***************************************************************************)
(* _insert_invoice, called for invoice.payment_succeeded / _failed.       *)
(***************************************************************************)
\* fault model: an event of an unknown customer attached to the first user
UserIdByCustomerGuessed(tbl, customer_id) ==
    LET i == CustomerByCus(tbl, customer_id)
    IN  IF i # 0 THEN {tbl[i].user_id} ELSE {1}

\* user_id of the invoice and lifecycle events: that of the Customer row
\* with the event's stripe_customer_id, None when there is no such row
UserIdByCustomer(tbl, customer_id) ==
    LET i == CustomerByCus(tbl, customer_id)
    IN  IF i # 0 THEN {tbl[i].user_id} ELSE NoInt

\* fault model: the resync made for every invoice event that names a
\* subscription, for the first user when no customer was looked up
AfterInvoiceAlwaysResync(r) ==
    IF TruthyStr(ExtractSubscriptionIdFromInvoice(r.obj))
    THEN [r EXCEPT !.pc = "sub_select", !.idx = 0, !.snap = NoObj,
                   !.row = NoObj,
                   !.user_id = IF TruthyInt(@) THEN @ ELSE {1}]
    ELSE Done(r, Ack)

\* after _insert_invoice: the defensive resync of invoice.payment_succeeded
AfterInvoice(r) ==
    IF /\ r.event_type = "invoice.payment_succeeded"
       /\ TruthyInt(r.user_id)
       /\ TruthyStr(ExtractSubscriptionIdFromInvoice(r.obj))
    THEN [r EXCEPT !.pc = "sub_select", !.idx = 0, !.snap = NoObj,
                   !.row = NoObj]
    ELSE Done(r, Ack)

\* invoice.payment_succeeded: SELECT stripe_customers WHERE
\* stripe_customer_id, for the user_id
InvoiceCustomerLookup(p) ==
    LET r == proc[p]
    IN  /\ At(p, "inv_cust")
        /\ Land(p,
             [r EXCEPT !.pc = "inv_select",
                       !.user_id = UserIdByCustomer(customers,
                                                    r.obj.customer)])
        /\ UNCHANGED << events, customers, subscriptions, invoices, started,
                        seen_events, gate_new, crashed_events, last_upsert >>

\* SELECT stripe_invoices WHERE stripe_invoice_id
InvoiceSelect(p) ==
    LET r == proc[p]
        i == InvoiceById(invoices, r.obj.id)
    IN  /\ At(p, "inv_select")
        /\ IF i # 0
           THEN /\ invoices' = KeepExistingInvoice(invoices, i,
                                   InvoiceRow(r.event_type, r.obj))
                /\ Land(p, AfterInvoice(r))
           ELSE /\ UNCHANGED invoices
                /\ Land(p,
                     [r EXCEPT !.pc = "inv_insert",
                               !.row = InvoiceRow(r.event_type, r.obj)])
        /\ UNCHANGED << events, customers, subscriptions, started, gate_new,
                        seen_events, crashed_events, last_upsert >>

\* db.add + db.commit of _insert_invoice
InvoiceInsert(p) ==
    LET r == proc[p]
    IN  /\ At(p, "inv_insert")
        /\ IF InvoiceConstraintViolation(invoices, r.row)
           THEN /\ Land(p, WebhookSwallow(r))
                /\ UNCHANGED invoices
           ELSE /\ invoices' = Append(invoices, r.row)
                /\ Land(p,
                              AfterInvoice([r EXCEPT !.wrote = TRUE]))
        /\ UNCHANGED << events, customers, subscriptions, started, gate_new,
                        seen_events, crashed_events, last_upsert >>

(***************************************************************************)
(* _upsert_subscription, called by the webhook and by confirm.            *)
(***************************************************************************)
\* customer.subscription.updated / deleted: SELECT stripe_customers WHERE
\* stripe_customer_id, for the user_id
SubscriptionCustomerLookup(p) ==
    LET r == proc[p]
        user_id == UserIdByCustomer(customers, r.obj.customer)
    IN  /\ At(p, "sub_cust")
        /\ Land(p,
             IF TruthyInt(user_id) /\ TruthyStr(r.obj.id)
             THEN [r EXCEPT !.pc = "sub_select", !.user_id = user_id]
             ELSE Done(r, Ack))
        /\ UNCHANGED << events, customers, subscriptions, invoices, started,
                        seen_events, gate_new, crashed_events, last_upsert >>

\* whether the subscription is read from the event itself
EmbedsSubscription(r) ==
    /\ r.kind = "webhook"
    /\ r.event_type \in {"customer.subscription.updated",
                         "customer.subscription.deleted"}

\* the arguments the caller passes to _upsert_subscription, from the
\* subscription object sub (the event's own, or the one retrieved)
UpsertArgs(r, sub) ==
    IF r.kind = "confirm"
    THEN SubscriptionArgs(TheInt(ResolveUserId(r.obj)), sub, sub.customer,
                          ConfirmPriceId(sub), sub.status,
                          OrStr(MetaTransactionId(r.obj), None))
    ELSE IF r.event_type = "checkout.session.completed"
    THEN SubscriptionArgs(TheInt(r.user_id), sub, sub.customer,
                          WebhookPriceId(sub), sub.status,
                          OrStr(MetaTransactionId(r.obj), None))
    ELSE IF r.event_type = "invoice.payment_succeeded"
    THEN SubscriptionArgs(TheInt(r.user_id), sub, sub.customer,
                          WebhookPriceId(sub), sub.status, None)
    ELSE SubscriptionArgs(TheInt(r.user_id), sub, r.obj.customer,
                          WebhookPriceId(sub),
                          LifecycleStatus(r.event_type, sub), None)

\* fault model: confirm deferring to the webhook whatever it fetched
ConfirmAlwaysDefers(r, sub) == TRUE

\* fault model: confirm upserting without a price
ConfirmCannotReconcileIgnoringPrice(r, sub) ==
    sub = NoObj \/ ~TruthyInt(ResolveUserId(r.obj))

\* confirm after  stripe.Subscription.retrieve: the reasons to answer
\* pending_webhook instead of upserting
ConfirmCannotReconcile(r, sub) ==
    \/ sub = NoObj
    \/ ~TruthyInt(ResolveUserId(r.obj))
    \/ ~TruthyStr(ConfirmPriceId(sub))

\* stripe.Subscription.retrieve (NoObj: the call raised) where the caller
\* makes it, then the SELECT stripe_subscriptions WHERE
\* stripe_subscription_id of _upsert_subscription
SubscriptionSelect(p) ==
    LET r0 == proc[p]
    IN  /\ At(p, "sub_select")
        /\ \E retrieved \in SubObjects \cup {NoObj} :
             LET sub == IF EmbedsSubscription(r0) THEN r0.obj ELSE retrieved
                 r == [r0 EXCEPT !.sub = sub]
             IN  Land(p,
                   IF r.kind = "confirm" /\ ConfirmCannotReconcile(r, sub)
                   THEN Done(r, ConfirmResponse(FALSE, "pending_webhook",
                                   r.obj.subscription, r.obj.customer, FALSE))
                   ELSE IF sub = NoObj
                   THEN WebhookSwallow(r)
                   ELSE LET args == UpsertArgs(r, sub)
                            i == SubscriptionById(subscriptions,
                                   args.stripe_subscription_id)
                        IN  [r EXCEPT !.pc = "sub_commit", !.idx = i,
                                      !.args = args,
                                      !.snap = RowAt(subscriptions, i),
                                      !.row = UpsertSubscriptionRow(
                                                RowAt(subscriptions, i), args)])
        /\ UNCHANGED << events, customers, subscriptions, invoices, started,
                        seen_events, gate_new, crashed_events, last_upsert >>

\* db.add + db.commit of _upsert_subscription.  IntegrityError is caught
\* in the webhook; confirm has no handler for it
SubscriptionCommit(p) ==
    LET r == proc[p]
        new == IF r.idx = 0 THEN r.row
               ELSE Flush(subscriptions[r.idx], r.snap, r.row)
    IN  /\ At(p, "sub_commit")
        /\ IF SubscriptionUniqueViolation(subscriptions, r.idx, new)
           THEN /\ Land(p,
                     IF r.kind = "confirm"
                     THEN Done(r, HttpError(500, "Internal Server Error"))
                     ELSE WebhookSwallow(r))
                /\ UNCHANGED << subscriptions, last_upsert >>
           ELSE /\ subscriptions' = Committed(subscriptions, r.idx, r.snap, r.row)
                /\ last_upsert' =
                     [last_upsert EXCEPT ![r.row.stripe_subscription_id] =
                        [origin |-> IF r.kind = "confirm" THEN "confirm"
                                    ELSE r.event_type,
                         obj |-> r.obj, row |-> r.row]]
                /\ Land(p,
                     IF r.kind = "confirm"
                     THEN Done([r EXCEPT !.wrote = TRUE],
                               ConfirmResponse(TRUE, "active",
                                   r.obj.subscription, r.obj.customer, TRUE))
                     ELSE Done([r EXCEPT !.wrote = TRUE], Ack))
        /\ UNCHANGED << events, customers, invoices, started, gate_new,
                        seen_events, crashed_events >>

(***************************************************************************)
(* POST /stripe/confirm.                                                   *)
(***************************************************************************)
\* fault model: confirm without the transaction id check
TransactionMismatchNever(s, transaction_id) == FALSE

\* step 2 of confirm_payment: the request's transaction_id and the
\* session's metadata.transaction_id are both there and disagree
TransactionMismatch(s, transaction_id) ==
    /\ TruthyStr(transaction_id)
    /\ TruthyStr(MetaTransactionId(s))
    /\ Strip(transaction_id) # MetaTransactionId(s)

\* fault model: a complete session taken as paid
SessionPaidWhenComplete(s) == s.status = "complete"

\* step 3 of confirm_payment: the session is complete and paid
SessionPaid(s) ==
    /\ s.status = "complete"
    /\ s.payment_status \in {"paid", "no_payment_required"}

\* fault model: confirm without its look at the local table
AlreadyLocalNever(tbl, sub_id) == FALSE

\* step 5 of confirm_payment: SELECT stripe_subscriptions WHERE
\* stripe_subscription_id finds a row
AlreadyLocal(tbl, sub_id) == SubscriptionById(tbl, sub_id) # 0

\* confirm_payment up to and with its SELECT of the subscription (step 5)
ConfirmOutcome(secret_key, retrievable, s, transaction_id, tbl) ==
    IF ~secret_key THEN HttpError(500, "Falta STRIPE_SECRET_KEY.")
    ELSE IF ~retrievable THEN HttpError(400, "session_id invalido")
    ELSE IF TransactionMismatch(s, transaction_id)
    THEN HttpError(400, "transaction_id no coincide")
    ELSE IF ~SessionPaid(s)
    THEN ConfirmResponse(FALSE, "not_paid", s.subscription, s.customer, FALSE)
    ELSE IF ~TruthyStr(s.subscription)
    THEN ConfirmResponse(FALSE, "pending", None, s.customer, FALSE)
    ELSE IF AlreadyLocal(tbl, s.subscription)
    THEN ConfirmResponse(TRUE, "active", s.subscription, s.customer, FALSE)
    ELSE NoResp

\* fault model: confirm upserting the customer of the session, as the
\* checkout branch of the webhook does, before the subscription
ConfirmProceedViaCustomer(r, s) ==
    IF ResolveUserId(s) = {} \/ ~TruthyStr(s.customer)
    THEN [r EXCEPT !.pc = "sub_select", !.obj = s]
    ELSE [r EXCEPT !.pc = "cust_by_cus", !.user_id = ResolveUserId(s),
                   !.obj = s @@ [details_email |-> None,
                                 customer_email |-> None]]

\* confirm_payment past its early answers: on to
\* stripe.Subscription.retrieve and the upsert of the subscription
ConfirmProceed(r, s) == [r EXCEPT !.pc = "sub_select", !.obj = s]

\* POST /stripe/confirm up to its SELECT of the subscription
ConfirmBegin(p) ==
    /\ Free(p)
    /\ started < MaxRequests
    /\ started' = started + 1
    /\ \E secret_key \in BOOLEAN, retrievable \in BOOLEAN, s \in Sessions,
          transaction_id \in RequestTransactionIds :
         LET r == [Idle EXCEPT !.kind = "confirm"]
             out == ConfirmOutcome(secret_key, retrievable, s, transaction_id,
                                   subscriptions)
         IN  Land(p,
               IF out # NoResp THEN Done(r, out)
               ELSE ConfirmProceed(r, s))
    /\ UNCHANGED << events, customers, subscriptions, invoices, gate_new,
                    seen_events, crashed_events, last_upsert >>

(***************************************************************************)
(* POST /stripe/create-checkout-session.                                   *)
(***************************************************************************)
\* _allowed_price_ids: STRIPE_PRICE_ID_PRO if set, and the non-empty
\* stripped pieces of STRIPE_PRICE_IDS_ALLOWED
AllowedPriceIds(env) ==
    (IF Strip(env.pro) # "" THEN {Strip(env.pro)} ELSE {})
      \cup ({Strip(env.extra[i]) : i \in DOMAIN env.extra} \ {""})

\* (payload.price_id or default_price).strip()
EffectivePriceId(env, payload) ==
    Strip(OrStr(payload.price_id, Strip(env.pro)))

\* fault model: the allow-list not consulted
PriceAllowedAlways(allowed, price_id) == TRUE

\* not (allowed and price_id not in allowed)
PriceAllowed(allowed, price_id) == allowed = {} \/ price_id \in allowed

\* the session stripe.checkout.Session.create returns for the arguments of
\* create_checkout_session (the processor chooses id and url)
SessionCreate(price_id, user_id, tx) ==
    [id |-> "cs_1", url |-> "https://checkout/cs_1",
     client_ref |-> IF user_id # NoInt THEN StrOf(TheInt(user_id)) ELSE None,
     meta_user |-> IF user_id # NoInt THEN StrOf(TheInt(user_id)) ELSE "",
     chosen_price_id |-> price_id, meta_tx |-> tx]

CheckoutSessionResponse(checkout_url, session_id) ==
    [code |-> 201, checkout_url |-> checkout_url, session_id |-> session_id]

\* create_checkout_session: its response and the processor session it
\* created (NoObj: none)
CreateCheckoutOutcome(secret_key, env, payload, create_ok) ==
    LET tx == Strip(OrStr(payload.transaction_id, ""))
        price_id == EffectivePriceId(env, payload)
        rejected(resp) == [resp |-> resp, session |-> NoObj]
    IN  IF ~secret_key
        THEN rejected(HttpError(500, "Falta STRIPE_SECRET_KEY."))
        ELSE IF price_id = ""
        THEN rejected(HttpError(500, "Falta STRIPE_PRICE_ID_PRO o price_id."))
        ELSE IF ~PriceAllowed(AllowedPriceIds(env), price_id)
        THEN rejected(HttpError(400, "price_id no permitido."))
        ELSE IF ~create_ok
        THEN rejected(HttpError(500, "Error creando sesion Stripe"))
        ELSE LET session == SessionCreate(price_id, payload.user_id, tx)
             IN  [resp |-> CheckoutSessionResponse(session.url, session.id),
                  session |-> session]

\* create_ok: whether stripe.checkout.Session.create returns
CreateCheckoutSession(p) ==
    /\ Free(p)
    /\ started < MaxRequests
    /\ started' = started + 1
    /\ \E secret_key \in BOOLEAN, env \in CheckoutEnvs,
          payload \in CheckoutPayloads, create_ok \in BOOLEAN :
         LET out == CreateCheckoutOutcome(secret_key, env, payload, create_ok)
         IN  Land(p, Done([Idle EXCEPT !.kind = "create_checkout",
                                       !.obj = out.session],
                          out.resp))
    /\ UNCHANGED << events, customers, subscriptions, invoices, gate_new,
                    seen_events, crashed_events, last_upsert >>

(***************************************************************************)
(* The webhook of stripe/router.py, the router main.py mounts.            *)
(***************************************************************************)
LegacyWebhookOutcome(webhook_secret, signature) ==
    IF ~webhook_secret
    THEN HttpError(500, "No hay STRIPE_WEBHOOK_SECRET configurado.")
    ELSE IF signature = "invalid" THEN HttpError(400, "Firma de Webhook invalida")
    ELSE IF signature = "malformed" THEN HttpError(400, "Payload invalido")
    ELSE Ack

LegacyWebhook(p) ==
    /\ Free(p)
    /\ started < MaxRequests
    /\ started' = started + 1
    /\ \E webhook_secret \in BOOLEAN,
          signature \in {"invalid", "malformed", "valid"} :
         Land(p,
                    Done([Idle EXCEPT !.kind = "legacy_webhook"],
                         LegacyWebhookOutcome(webhook_secret, signature)))
    /\ UNCHANGED << events, customers, subscriptions, invoices, gate_new,
                    seen_events, crashed_events, last_upsert >>

(***************************************************************************)
(* The process dies while a request is in flight: the request gets no     *)
(* answer, what it committed stays.                                        *)
(***************************************************************************)
Crash(p) ==
    LET r == proc[p]
    IN  /\ Settled
        /\ r.pc # "idle"
        /\ proc' = [proc EXCEPT ![p] = Idle]
        /\ crashed_events' =
             IF r.kind = "webhook"
             THEN crashed_events
                    \cup {[event_id |-> r.event_id, wrote |-> r.wrote]}
             ELSE crashed_events
        /\ UNCHANGED << events, customers, subscriptions, invoices, started,
                        seen_events, gate_new, last_upsert >>

\* the response of worker p is sent: the worker is free again
Respond(p) ==
    /\ proc[p].pc = "done"
    /\ proc' = [proc EXCEPT ![p] = Idle]
    /\ UNCHANGED << events, customers, subscriptions, invoices, started,
                    seen_events, gate_new, crashed_events, last_upsert >>

Step(p) ==
    \/ WebhookDeliver(p)
    \/ CustomerSelectByUser(p)
    \/ CustomerSelectByCus(p)
    \/ CustomerCommit(p)
    \/ InvoiceCustomerLookup(p)
    \/ InvoiceSelect(p)
    \/ InvoiceInsert(p)
    \/ SubscriptionCustomerLookup(p)
    \/ SubscriptionSelect(p)
    \/ SubscriptionCommit(p)
    \/ ConfirmBegin(p)
    \/ CreateCheckoutSession(p)
    \/ LegacyWebhook(p)
    \/ Respond(p)
    \/ Crash(p)

Next == \E p \in Procs : Step(p)

Spec == Init /\ [][Next]_vars

\* one request at a time: a request is received only when no other is in
\* flight
AllIdle == \A q \in Procs : proc[q].pc = "idle"

NextSequential ==
    \E p \in Procs :
        \/ AllIdle /\ WebhookDeliver(p)
        \/ AllIdle /\ ConfirmBegin(p)
        \/ AllIdle /\ CreateCheckoutSession(p)
        \/ AllIdle /\ LegacyWebhook(p)
        \/ CustomerSelectByUser(p)
        \/ CustomerSelectByCus(p)
        \/ CustomerCommit(p)
        \/ InvoiceCustomerLookup(p)
        \/ InvoiceSelect(p)
        \/ InvoiceInsert(p)
        \/ SubscriptionCustomerLookup(p)
        \/ SubscriptionSelect(p)
        \/ SubscriptionCommit(p)
        \/ Respond(p)
        \/ Crash(p)

SpecSequential == Init /\ [][NextSequential]_vars

\* the requests received in a run under fairness
MaxLiveRequests == 2

\* a statement of the request worker p handles: the server thread of a
\* request runs until the handler returns or raises, and every processor
\* and storage call it makes returns or fails
Advance(p) ==
    \/ CustomerSelectByUser(p)
    \/ CustomerSelectByCus(p)
    \/ CustomerCommit(p)
    \/ InvoiceCustomerLookup(p)
    \/ InvoiceSelect(p)
    \/ InvoiceInsert(p)
    \/ SubscriptionCustomerLookup(p)
    \/ SubscriptionSelect(p)
    \/ SubscriptionCommit(p)
    \/ Respond(p)

\* the process stays up; requests arrive when clients send them
NextLive ==
    \E p \in Procs :
        \/ started < MaxLiveRequests /\ WebhookDeliver(p)
        \/ started < MaxLiveRequests /\ ConfirmBegin(p)
        \/ started < MaxLiveRequests /\ CreateCheckoutSession(p)
        \/ started < MaxLiveRequests /\ LegacyWebhook(p)
        \/ CustomerSelectByUser(p)
        \/ CustomerSelectByCus(p)
        \/ CustomerCommit(p)
        \/ InvoiceCustomerLookup(p)
        \/ InvoiceSelect(p)
        \/ InvoiceInsert(p)
        \/ SubscriptionCustomerLookup(p)
        \/ SubscriptionSelect(p)
        \/ SubscriptionCommit(p)
        \/ Respond(p)

SpecLive ==
    Init /\ [][NextLive]_vars /\ \A p \in Procs : WF_vars(Advance(p))

\* the requests received in a short run
MaxShortRequests == 2

\* a short run: any interleaving of the statements of its requests
NextShort ==
    \E p \in Procs :
        \/ started < MaxShortRequests /\ WebhookDeliver(p)
        \/ started < MaxShortRequests /\ ConfirmBegin(p)
        \/ started < MaxShortRequests /\ CreateCheckoutSession(p)
        \/ started < MaxShortRequests /\ LegacyWebhook(p)
        \/ CustomerSelectByUser(p)
        \/ CustomerSelectByCus(p)
        \/ CustomerCommit(p)
        \/ InvoiceCustomerLookup(p)
        \/ InvoiceSelect(p)
        \/ InvoiceInsert(p)
        \/ SubscriptionCustomerLookup(p)
        \/ SubscriptionSelect(p)
        \/ SubscriptionCommit(p)
        \/ Respond(p)
        \/ Crash(p)

SpecShort == Init /\ [][NextShort]_vars

\* a short run of requests handled one after the other
NextSequentialShort ==
    \E p \in Procs :
        \/ AllIdle /\ started < MaxShortRequests /\ WebhookDeliver(p)
        \/ AllIdle /\ started < MaxShortRequests /\ ConfirmBegin(p)
        \/ AllIdle /\ started < MaxShortRequests /\ CreateCheckoutSession(p)
        \/ AllIdle /\ started < MaxShortRequests /\ LegacyWebhook(p)
        \/ CustomerSelectByUser(p)
        \/ CustomerSelectByCus(p)
        \/ CustomerCommit(p)
        \/ InvoiceCustomerLookup(p)
        \/ InvoiceSelect(p)
        \/ InvoiceInsert(p)
        \/ SubscriptionCustomerLookup(p)
        \/ SubscriptionSelect(p)
        \/ SubscriptionCommit(p)
        \/ Respond(p)
        \/ Crash(p)

SpecSequentialShort == Init /\ [][NextSequentialShort]_vars

(***************************************************************************)
(* Properties.                                                             *)
(***************************************************************************)
EventRowsOf(e) == {i \in 1 .. Len(events) : events[i].stripe_event_id = e}

CustomerRowsOfUser(u) ==
    {i \in 1 .. Len(customers) : customers[i].user_id = u}

CustomerRowsOfCus(c) ==
    {i \in 1 .. Len(customers) : customers[i].stripe_customer_id = c}

SubscriptionRowsOf(sid) ==
    {i \in 1 .. Len(subscriptions) :
        subscriptions[i].stripe_subscription_id = sid}

InvoiceRowsOf(v) ==
    {i \in 1 .. Len(invoices) : invoices[i].stripe_invoice_id = v}

InFlight(p) == proc[p].pc \notin {"idle", "done"}

\* C1: the ledger holds at most one row per event id; of the deliveries of
\* one event id exactly as many obtained 'new' as the ledger has rows for it
\* (at most one), and a delivery obtains 'duplicate' only after another
\* obtained 'new'.
C1_LedgerAtomic ==
    \A e \in EventIds :
        /\ Cardinality(EventRowsOf(e)) <= 1
        /\ gate_new[e] = Cardinality(EventRowsOf(e))
        /\ \A p \in Procs :
             (proc[p].event_id = e /\ proc[p].gate = "duplicate")
                => gate_new[e] = 1

\* a delivery is answered 'duplicate' while the delivery of the same event
\* id that obtained 'new' is still being processed
C1_Witness ==
    \E p, q \in Procs :
        /\ p # q
        /\ proc[p].pc = "done" /\ proc[p].gate = "duplicate"
        /\ InFlight(q) /\ proc[q].gate = "new"
        /\ proc[q].event_id = proc[p].event_id

\* C2: a delivery whose event id is already in the ledger is answered ok
\* in the step that finds the duplicate, and that step changes no table;
\* so of all the deliveries of one event id at most one is ever processed,
\* and the ledger holds one row for it.
C2_DuplicateIsNoOp ==
    /\ [](\A e \in EventIds :
            gate_new[e] <= 1 /\ Cardinality(EventRowsOf(e)) <= 1)
    /\ [][\A p \in Procs :
            (proc[p].pc = "idle" /\ proc'[p].gate = "duplicate")
               => /\ proc'[p].pc = "done"
                  /\ proc'[p].resp = Ack
                  /\ ~proc'[p].wrote
                  /\ UNCHANGED << events, customers, subscriptions, invoices >>
         ]_vars

\* the second delivery of an event whose first delivery wrote a Customer
C2_Witness ==
    \E p \in Procs :
        /\ proc[p].pc = "done" /\ proc[p].gate = "duplicate"
        /\ proc[p].resp = Ack
        /\ Len(events) = 1 /\ Len(customers) = 1

\* C3 (as claimed): a confirm call that found no local row and runs
\* beside a webhook delivery that upserts the same subscription id ends
\* without an error: when the webhook wrote the row first, confirm
\* overwrites it instead of failing on the unique constraint.
C3_ConfirmNeverFails ==
    \A p \in Procs :
        (/\ proc[p].pc = "done" /\ proc[p].kind = "confirm"
         /\ proc[p].obj # NoObj
         /\ last_upsert[proc[p].obj.subscription] # NoObj
         /\ last_upsert[proc[p].obj.subscription].origin # "confirm")
            => proc[p].resp.code = 200

\* C4 (as claimed): every webhook request is answered 200 with the body
\* {"status": "ok"}.
C4_WebhookAlwaysAcknowledged ==
    \A p \in Procs :
        (proc[p].pc = "done" /\ proc[p].kind \in {"webhook", "legacy_webhook"})
            => proc[p].resp = Ack

\* C5: at most one Customer row per owning user id and at most one per
\* processor customer id.
C5_CustomerUnique ==
    /\ \A u \in Users : Cardinality(CustomerRowsOfUser(u)) <= 1
    /\ \A c \in CustomerIds : Cardinality(CustomerRowsOfCus(c)) <= 1

\* a worker is about to commit a Customer row that the constraints reject
C5_Witness ==
    \E p \in Procs :
        /\ proc[p].pc = "cust_commit"
        /\ CustomerUniqueViolation(customers, proc[p].idx,
              IF proc[p].idx = 0 THEN proc[p].row
              ELSE Flush(customers[proc[p].idx], proc[p].snap, proc[p].row))

\* C6 (as claimed): once a checkout-completed event with a resolvable user
\* u and a processor customer id c has been processed, a Customer row
\* linking u to c exists.
C6_CustomerLinked ==
    \A p \in Procs :
        (/\ proc[p].pc = "done" /\ proc[p].kind = "webhook"
         /\ proc[p].gate = "new"
         /\ proc[p].event_type = "checkout.session.completed"
         /\ TruthyInt(ResolveUserId(proc[p].obj))
         /\ TruthyStr(proc[p].obj.customer))
            => \E i \in 1 .. Len(customers) :
                 /\ customers[i].user_id = TheInt(ResolveUserId(proc[p].obj))
                 /\ customers[i].stripe_customer_id = proc[p].obj.customer

\* C7: at most one Subscription row per processor subscription id.
C7_SubscriptionUnique ==
    \A sid \in SubscriptionIds : Cardinality(SubscriptionRowsOf(sid)) <= 1

\* a worker is about to insert a Subscription row for an id that got its
\* row after the worker's SELECT
C7_Witness ==
    \E p \in Procs :
        /\ proc[p].pc = "sub_commit" /\ proc[p].idx = 0
        /\ SubscriptionRowsOf(proc[p].row.stripe_subscription_id) # {}

\* the values an applied customer.subscription.updated event supplies, as
\* the Subscription row shows them
RowShowsUpdatedEvent(row, obj) ==
    /\ row.stripe_subscription_id = obj.id
    /\ row.stripe_customer_id = obj.customer
    /\ row.price_id = WebhookPriceId(obj)
    /\ row.status = obj.status
    /\ row.cancel_at_period_end = obj.cancel_at_period_end
    /\ row.current_period_start = ToDtFromUnix(obj.current_period_start)
    /\ row.current_period_end = ToDtFromUnix(obj.current_period_end)
    /\ row.canceled_at = ToDtFromUnix(obj.canceled_at)

\* C8: requests handled one after the other.  When a subscription-updated
\* event was the last to upsert a subscription id and a confirm call for
\* that id is answered afterwards, the call is answered active without
\* syncing, there is exactly one Subscription row for the id, and its
\* fields are those of the event's subscription object (the source
\* consulted last: confirm fetches nothing once it finds the row).
C8_UpdatedThenConfirm ==
    \A p \in Procs :
        (/\ proc[p].pc = "done" /\ proc[p].kind = "confirm"
         /\ proc[p].resp.code = 200
         /\ proc[p].resp.status \in {"active", "pending_webhook"}
         /\ last_upsert[proc[p].resp.subscription_id] # NoObj
         /\ last_upsert[proc[p].resp.subscription_id].origin
               = "customer.subscription.updated")
            => LET sid == proc[p].resp.subscription_id
                   rows == SubscriptionRowsOf(sid)
               IN  /\ proc[p].resp.status = "active"
                   /\ ~proc[p].resp.synced
                   /\ Cardinality(rows) = 1
                   /\ \A i \in rows :
                        RowShowsUpdatedEvent(subscriptions[i],
                                             last_upsert[sid].obj)

\* a confirm call answered after a subscription-updated event upserted
\* the row of its subscription id
C8_Witness ==
    \E p \in Procs :
        /\ proc[p].pc = "done" /\ proc[p].kind = "confirm"
        /\ proc[p].resp.code = 200 /\ proc[p].resp.status = "active"
        /\ last_upsert[proc[p].resp.subscription_id] # NoObj
        /\ last_upsert[proc[p].resp.subscription_id].origin
              = "customer.subscription.updated"

\* C9: a worker interprets an event only after its ledger row is written,
\* and no delivery of an event id whose earlier delivery died after the
\* ledger insert is ever processed: such a delivery obtains 'duplicate' and
\* writes nothing.
C9_LedgerFirst ==
    \A p \in Procs :
        /\ (proc[p].kind = "webhook" /\ proc[p].gate = "new")
              => /\ EventRowsOf(proc[p].event_id) # {}
                 /\ \A c \in crashed_events : c.event_id # proc[p].event_id
        /\ (proc[p].kind = "webhook" /\ proc[p].wrote) => proc[p].gate = "new"
        /\ (proc[p].kind = "webhook" /\ InFlight(p)) => proc[p].gate = "new"

\* an event's delivery died before it wrote to any entity table, its
\* redelivery is answered as a duplicate and the entity tables are empty
C9_Witness ==
    \E p \in Procs, c \in crashed_events :
        /\ ~c.wrote
        /\ proc[p].pc = "done" /\ proc[p].gate = "duplicate"
        /\ proc[p].event_id = c.event_id
        /\ customers = << >> /\ subscriptions = << >> /\ invoices = << >>

\* C10: there is at most one Invoice row per invoice id, and no step ever
\* changes or removes an Invoice row: an invoice event whose invoice id has
\* a row leaves the row as first recorded.
C10_InvoiceImmutable ==
    /\ [](\A v \in InvoiceIds : Cardinality(InvoiceRowsOf(v)) <= 1)
    /\ [][\A i \in 1 .. Len(invoices) :
            Len(invoices') >= i /\ invoices'[i] = invoices[i]]_vars

\* an invoice event with another payload was processed for an invoice id
\* that had its row
C10_Witness ==
    \E p \in Procs :
        /\ proc[p].pc = "done" /\ proc[p].gate = "new"
        /\ proc[p].event_type \in {"invoice.payment_succeeded",
                                   "invoice.payment_failed"}
        /\ ~proc[p].wrote
        /\ \E i \in InvoiceRowsOf(proc[p].obj.id) :
             invoices[i].raw_json # proc[p].obj

\* C11 (as claimed): when the upsert of a customer.subscription.deleted
\* event commits, the Subscription row of the event's subscription id holds
\* status 'canceled', whatever status the event's object reports.
C11_DeletedStoresCanceled ==
    [][\A p \in Procs :
         (/\ proc[p].pc = "sub_commit"
          /\ proc[p].event_type = "customer.subscription.deleted"
          /\ proc'[p].pc = "done" /\ proc'[p].wrote)
            => /\ \E i \in 1 .. Len(subscriptions') :
                    subscriptions'[i].stripe_subscription_id = proc[p].obj.id
               /\ \A i \in 1 .. Len(subscriptions') :
                    subscriptions'[i].stripe_subscription_id = proc[p].obj.id
                       => subscriptions'[i].status = "canceled"]_vars

\* the fields _upsert_subscription overwrites whatever is supplied
MutableSubscriptionFields ==
    {"user_id", "stripe_customer_id", "price_id", "status",
     "cancel_at_period_end", "current_period_start", "current_period_end",
     "canceled_at"}

\* C12: requests handled one after the other.  A call of
\* _upsert_subscription that commits, on an id that has a row, leaves the
\* row count as it is, sets the row's user, customer id, price, status,
\* cancel-at-period-end, period start, period end and canceled-at to the
\* supplied values (absent ones included), sets the transaction id only
\* when a non-empty one is supplied, and touches no other row; on an id
\* without a row it appends exactly one row holding the supplied values.
C12_UpsertSubscription ==
    [][\A p \in Procs :
         (proc[p].pc = "sub_commit" /\ proc'[p].pc = "done")
            => LET a == proc[p].args
                   old == SubscriptionRowsOf(a.stripe_subscription_id)
                   n == Len(subscriptions)
               IN  IF old = {}
                   THEN /\ Len(subscriptions') = n + 1
                        /\ \A i \in 1 .. n : subscriptions'[i] = subscriptions[i]
                        /\ subscriptions'[n + 1] =
                             [a EXCEPT !.transaction_id = OrStr(@, None)]
                   ELSE /\ Len(subscriptions') = n
                        /\ \A i \in (1 .. n) \ old :
                             subscriptions'[i] = subscriptions[i]
                        /\ \A i \in old :
                             /\ \A f \in MutableSubscriptionFields :
                                  subscriptions'[i][f] = a[f]
                             /\ subscriptions'[i].stripe_subscription_id
                                  = a.stripe_subscription_id
                             /\ subscriptions'[i].transaction_id =
                                  IF TruthyStr(a.transaction_id)
                                  THEN a.transaction_id
                                  ELSE subscriptions[i].transaction_id]_vars

\* a subscription-updated event, which supplies no transaction id and no
\* canceled-at, was written over a row that holds a transaction id
C12_Witness ==
    \E p \in Procs :
        /\ proc[p].pc = "done" /\ proc[p].wrote
        /\ proc[p].event_type = "customer.subscription.updated"
        /\ proc[p].obj.canceled_at = NoInt
        /\ \E i \in SubscriptionRowsOf(proc[p].obj.id) :
             /\ subscriptions[i].transaction_id = "tx_1"
             /\ subscriptions[i].canceled_at = NoInt
             /\ subscriptions[i].status = proc[p].obj.status

\* C13 (as claimed): a webhook delivery whose SELECTs found no Customer
\* row (no Invoice row) and which then commits its INSERT never stops
\* there on the unique constraint: it leaves _upsert_customer
\* (_insert_invoice) having written, with the row of its key in the table,
\* and goes on with the rest of its work.
C13_InsertRaceLoserCompletes ==
    [][\A p \in Procs :
         /\ (proc[p].pc = "cust_commit" /\ proc[p].idx = 0
               /\ proc'[p].pc = "done")
               => /\ proc'[p].wrote
                  /\ CustomerByUser(customers', TheInt(proc[p].user_id)) # 0
         /\ (proc[p].pc = "inv_insert" /\ TruthyStr(proc[p].obj.customer)
               /\ proc'[p].pc = "done")
               => /\ proc'[p].wrote
                  /\ InvoiceById(invoices', proc[p].obj.id) # 0]_vars

\* a confirm call that got past its SELECT of step 5 and is answered: its
\* session is complete and paid and carries a subscription id that had no
\* local row
ReconcilingConfirmDone(p) ==
    /\ proc[p].pc = "done" /\ proc[p].kind = "confirm"
    /\ proc[p].obj # NoObj
    /\ SessionPaid(proc[p].obj)
    /\ TruthyStr(proc[p].obj.subscription)

C18_ConfirmDefers ==
    /\ [](\A p \in Procs :
            (/\ ReconcilingConfirmDone(p)
             /\ \/ proc[p].sub = NoObj
                \/ ~TruthyInt(ResolveUserId(proc[p].obj))
                \/ ~TruthyStr(ConfirmPriceId(proc[p].sub)))
               => /\ proc[p].resp = ConfirmResponse(FALSE, "pending_webhook",
                        proc[p].obj.subscription, proc[p].obj.customer, FALSE)
                  /\ ~proc[p].wrote)
    /\ [][\A p \in Procs :
            (/\ proc[p].kind = "confirm" /\ proc[p].pc = "sub_select"
             /\ proc'[p].pc = "done")
               => UNCHANGED << events, customers, subscriptions, invoices >>]_vars

\* a confirm call was deferred because the fetched subscription has no
\* price, while the session names a user; no Subscription row was written
C18_Witness ==
    \E p \in Procs :
        /\ ReconcilingConfirmDone(p)
        /\ proc[p].sub # NoObj
        /\ ~TruthyStr(ConfirmPriceId(proc[p].sub))
        /\ TruthyInt(ResolveUserId(proc[p].obj))
        /\ proc[p].resp.status = "pending_webhook"
        /\ subscriptions = << >>

\* worker p takes a request of the given kind and answers it in the same
\* step, and the step writes to no table
AnswersWithoutWriting(p, kind) ==
    (/\ proc[p].pc = "idle" /\ proc'[p].pc = "done"
     /\ proc'[p].kind = kind)
        => UNCHANGED << events, customers, subscriptions, invoices >>

\* the request's transaction id and the session's are both non-empty and
\* differ
SuppliedIdsDisagree(s, transaction_id) ==
    /\ transaction_id \notin {None, ""}
    /\ Strip(s.meta_tx) \notin {None, ""}
    /\ Strip(transaction_id) # Strip(s.meta_tx)

\* the session is complete and its payment is paid or not required
CompleteAndPaid(s) ==
    s.status = "complete" /\ s.payment_status \in {"paid", "no_payment_required"}

\* C15: on every reachable table, a confirm call for a complete and paid
\* session whose subscription id has a Subscription row (no mismatch of
\* transaction ids) is answered ok, 'active', synced=false; and a confirm
\* call answered in its first step writes to no table, so the row and the
\* row count stay as they are.
C15_ConfirmAlreadyLocal ==
    /\ [](\A s \in Sessions, transaction_id \in RequestTransactionIds :
            (/\ CompleteAndPaid(s)
             /\ s.subscription # None
             /\ SubscriptionRowsOf(s.subscription) # {}
             /\ ~SuppliedIdsDisagree(s, transaction_id))
               => ConfirmOutcome(TRUE, TRUE, s, transaction_id, subscriptions)
                    = ConfirmResponse(TRUE, "active", s.subscription,
                                      s.customer, FALSE))
    /\ [][\A p \in Procs : AnswersWithoutWriting(p, "confirm")]_vars

\* a confirm call is answered active and not synced for a subscription id
\* whose row an earlier confirm call wrote
C15_Witness ==
    \E p \in Procs :
        /\ proc[p].pc = "done" /\ proc[p].kind = "confirm"
        /\ proc[p].resp.code = 200 /\ proc[p].resp.status = "active"
        /\ ~proc[p].resp.synced
        /\ last_upsert[proc[p].resp.subscription_id] # NoObj
        /\ last_upsert[proc[p].resp.subscription_id].origin = "confirm"
        /\ Len(subscriptions) = 1

\* C16: a confirm call for a retrievable session is rejected with the
\* mismatch error exactly when the request carries a transaction id, the
\* session's metadata carries a non-empty one and the two differ, whatever
\* the session's payment state; and the rejected call writes nothing.
C16_MismatchExactly ==
    /\ [](\A s \in Sessions, transaction_id \in RequestTransactionIds :
            (ConfirmOutcome(TRUE, TRUE, s, transaction_id, subscriptions)
               = HttpError(400, "transaction_id no coincide"))
              <=> SuppliedIdsDisagree(s, transaction_id))
    /\ [][\A p \in Procs : AnswersWithoutWriting(p, "confirm")]_vars

\* a confirm call was rejected as a mismatch
C16_Witness ==
    \E p \in Procs :
        /\ proc[p].pc = "done" /\ proc[p].kind = "confirm"
        /\ proc[p].resp = HttpError(400, "transaction_id no coincide")

\* C17: a confirm call (no mismatch) for a session that is not complete
\* and paid is answered 'not_paid', and one for a complete and paid session
\* without a subscription id is answered 'pending'; both are answered in
\* their first step, which writes to no table.
C17_NotPaidOrPending ==
    /\ [](\A s \in Sessions, transaction_id \in RequestTransactionIds :
            LET out == ConfirmOutcome(TRUE, TRUE, s, transaction_id,
                                      subscriptions)
            IN  ~SuppliedIdsDisagree(s, transaction_id)
                  => /\ ~CompleteAndPaid(s)
                          => /\ out.code = 200 /\ ~out.ok /\ ~out.synced
                             /\ out.status = "not_paid"
                     /\ (CompleteAndPaid(s) /\ s.subscription = None)
                          => /\ out.code = 200 /\ ~out.ok /\ ~out.synced
                             /\ out.status = "pending")
    /\ [][\A p \in Procs : AnswersWithoutWriting(p, "confirm")]_vars

\* a confirm call for an unpaid session was answered not_paid although the
\* session's subscription id has its row
C17_Witness ==
    \E p \in Procs :
        /\ proc[p].pc = "done" /\ proc[p].kind = "confirm"
        /\ proc[p].resp.code = 200 /\ proc[p].resp.status = "not_paid"
        /\ proc[p].resp.subscription_id # None
        /\ SubscriptionRowsOf(proc[p].resp.subscription_id) # {}

\* the status values of ConfirmResponse
ConfirmStatuses ==
    {"active", "pending", "pending_webhook", "not_paid", "invalid"}

\* C19 (as claimed): a confirm call is never answered with the HTTP error
\* for a session id that cannot be retrieved (it is answered with a
\* response of status 'invalid'), and every response it returns has a
\* status among active, pending, pending_webhook, not_paid, invalid.
C19_ConfirmResponseShape ==
    \A p \in Procs :
        (proc[p].pc = "done" /\ proc[p].kind = "confirm")
            => /\ proc[p].resp # HttpError(400, "session_id invalido")
               /\ proc[p].resp.code = 200
                    => proc[p].resp.status \in ConfirmStatuses

\* C20: with the processor key configured, a webhook request without a
\* configured webhook secret, without signature header, with a signature
\* that does not match or with a malformed payload is not taken for an
\* event; and a request that is not taken for an event is acknowledged in
\* its first step, which writes to no table: no ledger row, no Customer,
\* Subscription or Invoice row.
C20_UnverifiedDropped ==
    /\ [](\A webhook_secret \in BOOLEAN, signature \in Signatures :
            (~webhook_secret \/ signature # "valid")
               => VerifyWebhook(TRUE, webhook_secret, signature) = "ack")
    /\ [][\A p \in Procs :
            (/\ proc[p].pc = "idle" /\ proc'[p].pc = "done"
             /\ proc'[p].kind = "webhook"
             /\ proc'[p].gate \in {"none", "unverified"})
               => /\ proc'[p].gate = "unverified" => proc'[p].resp = Ack
                  /\ UNCHANGED << events, customers, subscriptions,
                                  invoices >>]_vars

\* a request that failed verification was acknowledged while the tables
\* hold rows
C20_Witness ==
    \E p \in Procs :
        /\ proc[p].pc = "done" /\ proc[p].kind = "webhook"
        /\ proc[p].gate = "unverified" /\ proc[p].resp = Ack
        /\ Len(events) = 1 /\ Len(customers) = 1

\* the event types of the subscription lifecycle
LifecycleEvents ==
    {"customer.subscription.updated", "customer.subscription.deleted"}

\* C21: no step of a delivery of a subscription-updated or -deleted event
\* changes the Customer table; and when the lookup of such a delivery finds
\* no Customer row for the event's customer id, the delivery ends there:
\* acknowledged, nothing written, the Subscription table as it was, the
\* event's row in the ledger.
C21_LifecycleNeedsCustomer ==
    [][\A p \in Procs :
         /\ (proc'[p] # proc[p]
               /\ (proc[p].event_type \in LifecycleEvents
                     \/ proc'[p].event_type \in LifecycleEvents))
               => UNCHANGED customers
         /\ (proc[p].pc = "sub_cust" /\ proc'[p] # proc[p]
               /\ proc'[p].pc # "idle"
               /\ CustomerRowsOfCus(proc[p].obj.customer) = {})
               => /\ proc'[p].pc = "done" /\ proc'[p].resp = Ack
                  /\ ~proc'[p].wrote
                  /\ UNCHANGED subscriptions
                  /\ EventRowsOf(proc[p].event_id) # {}]_vars

\* a lifecycle event of a customer id without Customer row was answered;
\* there is no Subscription row
C21_Witness ==
    \E p \in Procs :
        /\ proc[p].pc = "done" /\ proc[p].gate = "new"
        /\ proc[p].event_type \in LifecycleEvents
        /\ CustomerRowsOfCus(proc[p].obj.customer) = {}
        /\ subscriptions = << >>
        /\ EventRowsOf(proc[p].event_id) # {}

\* the user a checkout session names: metadata.user_id when it is a user
\* id, else client_reference_id
NamedUser(obj) ==
    IF obj.meta_user \in {"1", "2"} THEN IntOf[obj.meta_user]
    ELSE IntOf[obj.client_ref]

\* the checkout session names a user in one of the two places
NamesUser(obj) ==
    obj.meta_user \in {"1", "2"}
       \/ (obj.meta_user = None /\ obj.client_ref \in {"1", "2"})

\* C22: requests handled one after the other.  The user of a
\* checkout-completed event is the metadata user id when there is one and
\* the client reference id otherwise, and the Customer row and the
\* Subscription row the event writes carry that user.
C22_AttributionFallback ==
    /\ [](\A obj \in CheckoutObjects :
            NamesUser(obj) => ResolveUserId(obj) = {NamedUser(obj)})
    /\ [][\A p \in Procs :
            /\ (proc[p].pc = "cust_commit" /\ proc'[p].wrote)
                 => \E i \in 1 .. Len(customers') :
                      /\ customers'[i].stripe_customer_id = proc[p].obj.customer
                      /\ customers'[i].user_id = NamedUser(proc[p].obj)
            /\ (/\ proc[p].pc = "sub_commit"
                /\ proc[p].event_type = "checkout.session.completed"
                /\ proc'[p].pc = "done"
                /\ last_upsert' # last_upsert)
                 => \A i \in 1 .. Len(subscriptions') :
                      subscriptions'[i].stripe_subscription_id
                          = proc[p].args.stripe_subscription_id
                        => subscriptions'[i].user_id = NamedUser(proc[p].obj)]_vars

\* a checkout-completed event that names its user in client_reference_id
\* only has written the Customer row and the Subscription row of that user
C22_Witness ==
    \E p \in Procs :
        /\ proc[p].pc = "done" /\ proc[p].wrote
        /\ proc[p].event_type = "checkout.session.completed"
        /\ proc[p].obj.meta_user = None
        /\ \E i \in 1 .. Len(customers) :
             /\ customers[i].stripe_customer_id = proc[p].obj.customer
             /\ customers[i].user_id = IntOf[proc[p].obj.client_ref]
        /\ \E i \in 1 .. Len(subscriptions) :
             /\ subscriptions[i].user_id = IntOf[proc[p].obj.client_ref]
             /\ last_upsert[subscriptions[i].stripe_subscription_id].obj
                  = proc[p].obj

\* C23: a delivery of a new checkout-completed event whose session names
\* no user (neither metadata.user_id nor client_reference_id is a user id)
\* is answered in the step that records it: acknowledged, with its row in
\* the ledger, no Customer, Subscription or Invoice row written or changed
\* and no statement or processor call left to run.
C23_CheckoutWithoutUser ==
    [][\A p \in Procs :
         (/\ proc[p].pc = "idle" /\ proc'[p].pc # "idle"
          /\ proc'[p].event_type = "checkout.session.completed"
          /\ proc'[p].obj.meta_user \notin {"1", "2"}
          /\ proc'[p].obj.client_ref \notin {"1", "2"})
            => /\ proc'[p].pc = "done" /\ proc'[p].resp = Ack
               /\ ~proc'[p].wrote
               /\ proc'[p].sub = NoObj
               /\ UNCHANGED << customers, subscriptions, invoices >>
               /\ \E i \in 1 .. Len(events') :
                    events'[i].stripe_event_id = proc'[p].event_id]_vars

\* a checkout-completed event that names no user was acknowledged and is
\* in the ledger
C23_Witness ==
    \E p \in Procs :
        /\ proc[p].pc = "done" /\ proc[p].gate = "new"
        /\ proc[p].event_type = "checkout.session.completed"
        /\ proc[p].obj.meta_user = "0" /\ proc[p].obj.client_ref = "abc"
        /\ proc[p].resp = Ack
        /\ EventRowsOf(proc[p].event_id) # {}
        /\ customers = << >>

\* the three places of an invoice that may name its subscription, with
\* every combination of absent, empty and two different ids
InvoiceReferences ==
    [subscription : {None, "", "sub_1", "sub_2"},
     parent_sub : {None, "", "sub_1", "sub_2"},
     line_sub : {None, "", "sub_1", "sub_2"}]

\* the first non-empty one of the direct field, the parent reference and
\* the first line item's reference; None when there is none
FirstReference(obj) ==
    LET refs == << obj.subscription, obj.parent_sub, obj.line_sub >>
        found == {i \in 1 .. 3 : refs[i] \notin {None, ""}}
    IN  IF found = {} THEN None
        ELSE refs[CHOOSE i \in found : \A j \in found : i <= j]

RecognizedEvents ==
    {"checkout.session.completed", "invoice.payment_succeeded",
     "invoice.payment_failed"} \cup LifecycleEvents

\* C25: a delivery of a new verified event of a type the webhook has no
\* branch for is answered in the step that records it: acknowledged, its
\* row (id and type) in the ledger, no Customer, Subscription or Invoice
\* row written or changed.
C25_UnrecognizedIgnored ==
    [][\A p \in Procs :
         (/\ proc[p].pc = "idle" /\ proc'[p].pc # "idle"
          /\ proc'[p].kind = "webhook" /\ proc'[p].gate = "new"
          /\ proc'[p].event_type \notin RecognizedEvents)
            => /\ proc'[p].pc = "done" /\ proc'[p].resp = Ack
               /\ ~proc'[p].wrote
               /\ UNCHANGED << customers, subscriptions, invoices >>
               /\ Len(events') = Len(events) + 1
               /\ events'[Len(events')] =
                    EventRow(proc'[p].event_id, proc'[p].event_type)]_vars

\* an event of an unrecognized type was acknowledged and is in the ledger,
\* beside the rows an earlier event wrote
C25_Witness ==
    \E p \in Procs :
        /\ proc[p].pc = "done" /\ proc[p].gate = "new"
        /\ proc[p].event_type \in EventTypes \ RecognizedEvents
        /\ proc[p].resp = Ack
        /\ EventRowsOf(proc[p].event_id) # {}
        /\ Len(customers) = 1

\* C26: every Subscription row has a non-empty price id and an owning
\* user id (a subscription whose items give no price creates no row, on the
\* webhook path as on the confirm path).
C26_SubscriptionHasPriceAndUser ==
    \A i \in 1 .. Len(subscriptions) :
        /\ TruthyStr(subscriptions[i].price_id)
        /\ subscriptions[i].user_id \in Users

\* C27: no step of a confirm call, whatever the call answers, creates or
\* changes a row of the ledger, of customers or of invoices.
C27_ConfirmWritesSubscriptionOnly ==
    [][\A p \in Procs :
         (/\ proc'[p] # proc[p]
          /\ proc[p].kind = "confirm" \/ proc'[p].kind = "confirm")
            => UNCHANGED << events, customers, invoices >>]_vars

\* a confirm call has upserted a subscription while the ledger and
\* customers hold the rows a checkout delivery wrote
C27_Witness ==
    /\ \E p \in Procs : /\ proc[p].pc = "done" /\ proc[p].kind = "confirm"
                        /\ proc[p].wrote
    /\ Len(events) > 0 /\ Len(customers) > 0 /\ Len(subscriptions) = 1

\* worker p of the webhook makes its stripe.Subscription.retrieve in this
\* step and the call raises
RetrieveFails(p) ==
    /\ proc[p].pc = "sub_select" /\ proc[p].kind = "webhook"
    /\ proc[p].event_type \in {"checkout.session.completed",
                               "invoice.payment_succeeded"}
    /\ proc'[p].pc \notin {"idle", "sub_select"} /\ proc'[p].sub = NoObj

\* C28: when the subscription fetch of a webhook delivery fails, the
\* delivery ends acknowledged in that step, which changes no table; the
\* Customer the checkout branch committed and the Invoice the invoice
\* branch recorded are there; no other step of a request than the commit of
\* _upsert_subscription, which this delivery does not reach, writes a
\* Subscription.
C28_WebhookFetchFailureSwallowed ==
    /\ [][\A p \in Procs :
            RetrieveFails(p)
               => /\ proc'[p].pc = "done" /\ proc'[p].resp = Ack
                  /\ UNCHANGED << events, customers, subscriptions, invoices,
                                  last_upsert >>
                  /\ proc'[p].wrote = proc[p].wrote
                  /\ proc[p].event_type = "checkout.session.completed"
                       => proc[p].wrote /\ Len(customers') > 0
                  /\ proc[p].event_type = "invoice.payment_succeeded"
                       => InvoiceRowsOf(proc[p].obj.id) # {}]_vars
    /\ [][\A p \in Procs :
            (proc'[p] # proc[p] /\ proc[p].pc # "sub_commit")
               => UNCHANGED subscriptions]_vars

\* a checkout delivery committed its Customer, its fetch of the
\* subscription failed, and it was acknowledged with no Subscription stored
C28_Witness ==
    \E p \in Procs :
        /\ proc[p].pc = "done" /\ proc[p].kind = "webhook"
        /\ proc[p].event_type = "checkout.session.completed"
        /\ TruthyStr(proc[p].obj.subscription)
        /\ proc[p].wrote /\ proc[p].sub = NoObj /\ proc[p].resp = Ack
        /\ Len(customers) = 1 /\ Len(subscriptions) = 0

\* requests and environments of create_checkout_session beyond those the
\* model delivers
AnyCheckoutEnvs ==
    CheckoutEnvs \cup
      { [pro |-> "price_pro", extra |-> << " ", "price_y" >>],
        [pro |-> "", extra |-> << "price_x" >>] }

AnyCheckoutPayloads ==
    CheckoutPayloads \cup
      [price_id : {"", "price_pro"}, user_id : {{2}},
       transaction_id : {"", "tx_1"}]

\* the price ids the environment configures
ConfiguredPriceIds(env) ==
    {id \in {Strip(env.pro)} \cup {Strip(env.extra[i]) : i \in DOMAIN env.extra} :
       id # ""}

\* C29: create_checkout_session with a non-empty allow-list that lacks the
\* effective price id is rejected with an http error and creates no
\* processor session; a created session carries the request's user id and
\* (stripped) transaction id in its metadata, and the 201 response returns
\* the url and the id of that session; the call touches no table.
C29_CheckoutCreation ==
    /\ [](\A secret_key \in BOOLEAN, env \in AnyCheckoutEnvs,
             payload \in AnyCheckoutPayloads, create_ok \in BOOLEAN :
            LET out == CreateCheckoutOutcome(secret_key, env, payload,
                                             create_ok)
                price_id == Strip(IF payload.price_id \in {None, ""}
                                  THEN Strip(env.pro) ELSE payload.price_id)
            IN  /\ (ConfiguredPriceIds(env) # {}
                      /\ price_id \notin ConfiguredPriceIds(env))
                      => out.session = NoObj /\ out.resp.code \in {400, 500}
                /\ out.session # NoObj
                      => /\ SafeInt(out.session.meta_user) = payload.user_id
                         /\ out.session.meta_tx
                              = Strip(IF payload.transaction_id = None THEN ""
                                      ELSE payload.transaction_id)
                         /\ out.session.chosen_price_id = price_id
                         /\ out.resp = [code |-> 201,
                                        checkout_url |-> out.session.url,
                                        session_id |-> out.session.id])
    /\ [][\A p \in Procs :
            (proc[p].pc = "idle" /\ proc'[p].kind = "create_checkout")
               => /\ UNCHANGED << events, customers, subscriptions, invoices >>
                  /\ proc'[p].pc = "done"
                  /\ \E secret_key \in BOOLEAN, env \in CheckoutEnvs,
                        payload \in CheckoutPayloads, create_ok \in BOOLEAN :
                       LET out == CreateCheckoutOutcome(secret_key, env,
                                                        payload, create_ok)
                       IN  /\ proc'[p].resp = out.resp
                           /\ proc'[p].obj = out.session]_vars

\* a request for a price outside a non-empty allow-list was rejected with
\* 400 and created no session
C29_Witness ==
    \E p \in Procs :
        /\ proc[p].pc = "done" /\ proc[p].kind = "create_checkout"
        /\ proc[p].resp = HttpError(400, "price_id no permitido.")
        /\ proc[p].obj = NoObj

\* tbl2 has a row for every primary key of tbl (the index of a row stands
\* for its primary key)
RowsKept(tbl, tbl2) == Len(tbl2) >= Len(tbl)

\* C30: no step removes a row from the ledger, customers, subscriptions or
\* invoices (a row keeps its place, a Subscription and an Invoice row their
\* processor id); a ledger row is never changed; the upsert of a
\* customer.subscription.deleted event leaves the row of its subscription
\* in the table, and a row that stores 'canceled' stays a row.
C30_RowsNeverRemoved ==
    [][/\ RowsKept(events, events') /\ RowsKept(customers, customers')
       /\ RowsKept(subscriptions, subscriptions')
       /\ RowsKept(invoices, invoices')
       /\ \A i \in 1 .. Len(events) : events'[i] = events[i]
       /\ \A i \in 1 .. Len(subscriptions) :
            subscriptions'[i].stripe_subscription_id
              = subscriptions[i].stripe_subscription_id
       /\ \A i \in 1 .. Len(invoices) :
            invoices'[i].stripe_invoice_id = invoices[i].stripe_invoice_id
       /\ \A p \in Procs :
            (/\ proc[p].pc = "sub_commit"
             /\ proc[p].event_type = "customer.subscription.deleted"
             /\ proc'[p].pc = "done")
               => /\ proc[p].idx # 0
                       => Len(subscriptions') = Len(subscriptions)
                  /\ proc'[p].wrote
                       => SubscriptionById(subscriptions', proc[p].obj.id) # 0]_vars

\* a customer.subscription.deleted event was upserted on the row an earlier
\* request had created: the only row of the table, now storing 'canceled'
C30_Witness ==
    \E p \in Procs :
        /\ proc[p].pc = "done" /\ proc[p].wrote
        /\ proc[p].event_type = "customer.subscription.deleted"
        /\ Len(subscriptions) = 1
        /\ subscriptions[1].stripe_subscription_id = proc[p].obj.id
        /\ subscriptions[1].status = "canceled"
        /\ last_upsert[proc[p].obj.id].origin = "customer.subscription.deleted"
        /\ Len(events) + Len(customers) >= 3

\* the status a lifecycle event of type origin with object obj stores
StatusOfEvent(origin, obj) ==
    IF origin = "customer.subscription.deleted" THEN "canceled" ELSE obj.status

\* C31: requests handled one after the other.  While a lifecycle event is
\* the last to have upserted a subscription id, the row of the id stores
\* that event's status ('canceled' for a deletion); whichever event is
\* processed later wins: an updated event committed over the 'canceled' a
\* deletion stored replaces it with its own status.
C31_LastProcessedWins ==
    /\ [](\A id \in SubscriptionIds :
            (/\ last_upsert[id] # NoObj
             /\ last_upsert[id].origin \in LifecycleEvents)
               => /\ SubscriptionRowsOf(id) # {}
                  /\ \A i \in SubscriptionRowsOf(id) :
                       subscriptions[i].status
                         = StatusOfEvent(last_upsert[id].origin,
                                         last_upsert[id].obj))
    /\ [][\A p \in Procs :
            (/\ proc[p].pc = "sub_commit" /\ proc'[p].pc = "done"
             /\ proc[p].event_type = "customer.subscription.updated"
             /\ proc[p].idx # 0
             /\ subscriptions[proc[p].idx].status = "canceled"
             /\ last_upsert[proc[p].obj.id].origin
                  = "customer.subscription.deleted")
               => /\ proc'[p].wrote
                  /\ subscriptions'[proc[p].idx].status = proc[p].obj.status
                  /\ last_upsert'[proc[p].obj.id].origin
                       = "customer.subscription.updated"]_vars

\* an updated event reporting 'active' is about to commit over the row in
\* which a deletion event, processed before it, stored 'canceled'
C31_Witness ==
    \E p \in Procs :
        /\ proc[p].pc = "sub_commit"
        /\ proc[p].event_type = "customer.subscription.updated"
        /\ proc[p].idx # 0
        /\ proc[p].obj.status = "active" /\ proc[p].row.status = "active"
        /\ subscriptions[proc[p].idx].status = "canceled"
        /\ last_upsert[proc[p].obj.id] # NoObj
        /\ last_upsert[proc[p].obj.id].origin = "customer.subscription.deleted"
        /\ last_upsert[proc[p].obj.id].obj.status # "canceled"

\* C32: the process staying up and every processor and storage call
\* returning or failing, a webhook delivery or confirm call in flight
\* always comes to its response, whatever faults it or another request
\* met, and the worker is released: in the end no request is in flight.
C32_UnitsTerminate ==
    /\ \A p \in Procs : InFlight(p) ~> proc[p].pc = "done"
    /\ \A p \in Procs : proc[p].pc = "done" ~> proc[p].pc = "idle"
    /\ <>[]AllIdle

\* a checkout delivery whose customer commit met the unique constraint (a
\* fault: it wrote nothing) was answered
C32_Witness ==
    \E p \in Procs :
        /\ proc[p].pc = "done" /\ proc[p].kind = "webhook"
        /\ proc[p].event_type = "checkout.session.completed"
        /\ ~proc[p].wrote /\ proc[p].gate = "new"
        /\ TruthyInt(ResolveUserId(proc[p].obj))
        /\ TruthyStr(proc[p].obj.customer)
        /\ Len(customers) > 0

\* C33: in every response body of confirm, ok is true exactly when status
\* is 'active', synced is true only with 'active' and exactly when this
\* call committed the subscription upsert itself, and with 'active' the
\* store holds a Subscription row of the session's subscription id,
\* whatever status that row stores.
C33_ConfirmResponseConsistent ==
    \A p \in Procs :
        (/\ proc[p].pc = "done" /\ proc[p].kind = "confirm"
         /\ proc[p].resp.code = 200)
           => LET resp == proc[p].resp
              IN  /\ resp.ok <=> resp.status = "active"
                  /\ resp.synced => resp.status = "active"
                  /\ resp.synced <=> proc[p].wrote
                  /\ resp.status = "active"
                       => /\ TruthyStr(resp.subscription_id)
                          /\ SubscriptionRowsOf(resp.subscription_id) # {}
                  /\ resp.synced
                       => /\ resp.subscription_id = proc[p].obj.subscription
                          /\ last_upsert[resp.subscription_id] # NoObj

\* confirm answered active without syncing while the row of the session's
\* subscription stores a status other than 'active'
C33_Witness ==
    \E p \in Procs :
        /\ proc[p].pc = "done" /\ proc[p].kind = "confirm"
        /\ proc[p].resp.code = 200 /\ proc[p].resp.status = "active"
        /\ proc[p].resp.ok /\ ~proc[p].resp.synced /\ ~proc[p].wrote
        /\ \E i \in SubscriptionRowsOf(proc[p].resp.subscription_id) :
             subscriptions[i].status \in {"canceled", "past_due"}

\* C34: a Subscription row that holds a non-empty transaction id holds a
\* non-empty one after every step, and the commit of an upsert that
\* supplies no transaction id (subscription updated / deleted, the resync of
\* invoice paid, a checkout or confirm whose session carries none) leaves
\* the transaction id of every row as it is.
C34_TransactionIdKept ==
    [][/\ \A i \in 1 .. Len(subscriptions) :
            TruthyStr(subscriptions[i].transaction_id)
               => /\ i <= Len(subscriptions')
                  /\ TruthyStr(subscriptions'[i].transaction_id)
       /\ \A p \in Procs :
            (/\ proc[p].pc = "sub_commit" /\ proc'[p].pc = "done"
             /\ ~TruthyStr(proc[p].args.transaction_id))
               => \A i \in 1 .. Len(subscriptions) :
                    subscriptions'[i].transaction_id
                      = subscriptions[i].transaction_id]_vars

\* the resync of an invoice-paid event was committed on a row that holds
\* the transaction id a checkout stored
C34_Witness ==
    \E p \in Procs :
        /\ proc[p].pc = "done" /\ proc[p].wrote
        /\ proc[p].event_type = "invoice.payment_succeeded"
        /\ proc[p].sub # NoObj
        /\ last_upsert[proc[p].sub.id] # NoObj
        /\ last_upsert[proc[p].sub.id].origin = "invoice.payment_succeeded"
        /\ \E i \in SubscriptionRowsOf(proc[p].sub.id) :
             subscriptions[i].transaction_id = "tx_1"

InvoiceEvents == {"invoice.payment_succeeded", "invoice.payment_failed"}

\* worker p takes this step for an event of one of the types
StepOfEvent(p, types) ==
    /\ proc'[p] # proc[p]
    /\ proc[p].event_type \in types \/ proc'[p].event_type \in types

\* C35: no step of an invoice event changes customers; no step of an
\* invoice-payment-failed event changes subscriptions or enters the
\* subscription upsert; an invoice-paid event takes a user id only from a
\* Customer row of the invoice's customer id, enters the upsert only with
\* such a user id and a resolved subscription id, with its Invoice row in
\* the table, and changes subscriptions in the commit of that upsert alone.
C35_InvoiceEventsFrame ==
    [][\A p \in Procs :
         /\ StepOfEvent(p, InvoiceEvents) => UNCHANGED customers
         /\ StepOfEvent(p, {"invoice.payment_failed"})
               => /\ UNCHANGED subscriptions
                  /\ proc'[p].pc \notin {"inv_cust", "sub_select",
                                         "sub_commit"}
         /\ (/\ StepOfEvent(p, {"invoice.payment_succeeded"})
             /\ proc[p].pc = "inv_cust" /\ proc'[p].pc # "idle")
               => /\ proc'[p].pc = "inv_select"
                  /\ TruthyInt(proc'[p].user_id)
                       => \E i \in CustomerRowsOfCus(proc[p].obj.customer) :
                            proc'[p].user_id = {customers[i].user_id}
                  /\ proc'[p].user_id = NoInt
                       <=> CustomerRowsOfCus(proc[p].obj.customer) = {}
         /\ (/\ StepOfEvent(p, {"invoice.payment_succeeded"})
             /\ proc[p].pc # "sub_select" /\ proc'[p].pc = "sub_select")
               => /\ proc[p].pc \in {"inv_select", "inv_insert"}
                  /\ TruthyInt(proc[p].user_id)
                  /\ TruthyStr(FirstReference(proc[p].obj))
                  /\ InvoiceRowsOf(proc[p].obj.id) # {}
                       \/ invoices' # invoices
         /\ (/\ StepOfEvent(p, {"invoice.payment_succeeded"})
             /\ subscriptions' # subscriptions)
               => /\ proc[p].pc = "sub_commit"
                  /\ TruthyInt(proc[p].user_id)
                  /\ InvoiceRowsOf(proc[p].obj.id) # {}
                  /\ proc[p].args.stripe_subscription_id
                       = proc[p].sub.id]_vars

\* an invoice-paid event of a known customer recorded its Invoice row and
\* then committed the subscription upsert
C35_Witness ==
    \E p \in Procs :
        /\ proc[p].pc = "done" /\ proc[p].wrote
        /\ proc[p].event_type = "invoice.payment_succeeded"
        /\ proc[p].sub # NoObj
        /\ InvoiceRowsOf(proc[p].obj.id) # {}
        /\ CustomerRowsOfCus(proc[p].obj.customer) # {}
        /\ Len(subscriptions) = 1
        /\ last_upsert[proc[p].sub.id].origin = "invoice.payment_succeeded"
        /\ last_upsert[proc[p].sub.id].obj = proc[p].obj

\* what metadata.user_id and client_reference_id may hold: absent, empty,
\* not a number, zero, a user id
UserIdStrings == {None, "", "abc", "0", "2"}

\* the string is the decimal form of a non-zero integer
NonZeroId(v) == v \in DOMAIN IntOf /\ IntOf[v] # 0

\* the request of worker p attributes its rows by the session it carries
AttributesBySession(p) ==
    /\ proc[p].obj # NoObj
    /\ \/ proc[p].kind = "confirm"
       \/ proc[p].event_type = "checkout.session.completed"

\* C36: the user id of a session is metadata.user_id when that is a
\* non-zero integer, else client_reference_id when that is one, else none
\* (missing or 0); a checkout-completed event or confirm call whose session
\* resolves to none never writes and never enters an upsert; every Customer
\* and Subscription row has a non-zero integer user id.
C36_UserIdNonZero ==
    /\ \A m \in UserIdStrings, c \in UserIdStrings :
         LET u == ResolveUserId([meta_user |-> m, client_ref |-> c])
         IN  IF NonZeroId(m) THEN u = {IntOf[m]}
             ELSE IF NonZeroId(c) THEN u = {IntOf[c]}
             ELSE u \in {NoInt, {0}}
    /\ \A p \in Procs :
         (/\ AttributesBySession(p)
          /\ ~NonZeroId(proc[p].obj.meta_user)
          /\ ~NonZeroId(proc[p].obj.client_ref))
            => /\ ~proc[p].wrote
               /\ proc[p].pc \in {"done", "sub_select"}
               /\ proc[p].pc = "sub_select" => proc[p].kind = "confirm"
    /\ \A i \in 1 .. Len(customers) :
         customers[i].user_id \in Int /\ customers[i].user_id # 0
    /\ \A i \in 1 .. Len(subscriptions) :
         subscriptions[i].user_id \in Int /\ subscriptions[i].user_id # 0

\* a confirm call whose session names no user fetched a subscription with a
\* price and was answered pending_webhook without writing
C36_Witness ==
    \E p \in Procs :
        /\ proc[p].pc = "done" /\ proc[p].kind = "confirm"
        /\ proc[p].obj # NoObj /\ proc[p].obj.meta_user = "abc"
        /\ proc[p].obj.client_ref = None
        /\ proc[p].sub # NoObj /\ proc[p].sub.items_price # "NoItems"
        /\ proc[p].resp.code = 200
        /\ proc[p].resp.status = "pending_webhook"
        /\ ~proc[p].wrote /\ subscriptions = << >>

=============================================================================
